---- MODULE Spec2Model ----
(***************************************************************************)
(* A model of the streaming equi-join node of polars-stream                *)
(* (crates/polars-stream/src/nodes/joins/equi_join.rs).                    *)
(*                                                                         *)
(* The node is a state machine Sample -> Build -> Probe ->                 *)
(* EmitUnmatchedBuild{,InOrder} -> Done that the scheduler drives by       *)
(* alternating update_state and spawn.  Rows are modelled by their key and *)
(* their identity (origin morsel, position in it), so that the output of   *)
(* the join can be compared with the relational definition.                *)
(***************************************************************************)
EXTENDS Integers, Sequences, FiniteSets, TLC

(***************************************************************************)
(* Bounds of the model.                                                    *)
(***************************************************************************)
MaxMorsels == 2
MaxPipelines == 2

(***************************************************************************)
(* Program constants.                                                      *)
(***************************************************************************)
LOPSIDED_SAMPLE_FACTOR == 10

\* The null key.  Non-null keys are the positive numbers of KeyDomain.
NULL == 0
KeyDomain == {NULL, 1, 2}
\* Heights of the morsels the inputs are made of.
MorselHeights == {1, 2}
\* The values POLARS_JOIN_SAMPLE_LIMIT takes in the model.
SampleLimits == {0, 3}
\* get_ideal_morsel_size() as used for probe_limit.
IdealMorselSizes == {1, 2}

PortStates == {"Blocked", "Ready", "Done"}
JoinTypes == {"Inner", "Left", "Right", "Full"}
MaintainOrders == {"None", "Left", "Right", "LeftRight", "RightLeft"}

VARIABLES
    schemas,        \* the input and key schemas EquiJoinNode::new is given
    frame,          \* the payload selectors and one output frame
    stream,         \* one BufferedStream and the tasks of its reinsert calls
    args,           \* JoinArgs: how, maintain_order, nulls_equal, coalesce, suffix
    SAMPLE_LIMIT,   \* the static SAMPLE_LIMIT
    ideal_morsel_size,
    node,           \* EquiJoinNode: state, params, num_pipelines, table
    recv,           \* recv[0], recv[1] as update_state left them
    send,           \* send[0] as update_state left it
    in_recv,        \* recv as passed to the last update_state
    in_send,        \* send[0] as passed to the last update_state
    upstream,       \* per input port, the morsels the source still has
    phase,          \* the tasks of the running spawn, if any
    output,         \* the morsels sent to the output port, in order
    pc,             \* scheduler position
    hist            \* history: what the properties below observe

vars == <<schemas, frame, stream, args, SAMPLE_LIMIT, ideal_morsel_size, node, recv, send, in_recv,
          in_send, upstream, phase, output, pc, hist>>

(***************************************************************************)
(* Generic helpers.                                                        *)
(***************************************************************************)
None == {}
Some(x) == {x}
unwrap(o) == CHOOSE x \in o : TRUE

Max2(a, b) == IF a >= b THEN a ELSE b
Min2(a, b) == IF a <= b THEN a ELSE b

RECURSIVE SumSeq(_)
SumSeq(s) == IF s = <<>> THEN 0 ELSE Head(s) + SumSeq(Tail(s))

RECURSIVE Flatten(_)
Flatten(ss) == IF ss = <<>> THEN <<>> ELSE Head(ss) \o Flatten(Tail(ss))

RECURSIVE AscSeq(_)
\* The elements of a finite set of numbers, ascending.
AscSeq(S) ==
    IF S = {} THEN <<>>
    ELSE LET lo == CHOOSE x \in S : \A y \in S : x <= y
         IN <<lo>> \o AscSeq(S \ {lo})

Gather(s, idxs) == [j \in 1..Len(idxs) |-> s[idxs[j]]]

Range(s) == {s[i] : i \in 1..Len(s)}

\* All the orders of the elements of s that are ascending in the sort key
\* sk: what a sort that does not maintain the order of equal elements may
\* return.
SortedOrders(s) ==
    LET n == Len(s)
        perms == {f \in [1..n -> 1..n] : \A i, j \in 1..n : i # j => f[i] # f[j]}
        ok(f) == \A i \in 1..(n - 1) : s[f[i]].sk <= s[f[i + 1]].sk
    IN {[i \in 1..n |-> s[f[i]]] : f \in {g \in perms : ok(g)}}

RECURSIVE InsertSorted(_, _)
InsertSorted(s, x) ==
    IF s = <<>> THEN <<x>>
    ELSE IF x.sk < Head(s).sk THEN <<x>> \o s
    ELSE <<Head(s)>> \o InsertSorted(Tail(s), x)

RECURSIVE StableSort(_)
\* A stable sort by the sort key sk: equal elements keep their order.
StableSort(s) ==
    IF s = <<>> THEN <<>>
    ELSE InsertSorted(StableSort(SubSeq(s, 1, Len(s) - 1)), s[Len(s)])

(***************************************************************************)
(* Rows, morsels and the inputs.                                           *)
(* A row is [m, i, key]: row i of the m-th morsel of its side (m, i >= 1). *)
(* NoRow stands for the all-null row of the other side.  A morsel keeps    *)
(* its place in its input as origin: its seq may be relabelled.            *)
(***************************************************************************)
NoRow == [m |-> 0, i |-> 0, key |-> NULL]

MkMorsel(j, keys) ==
    [seq |-> j - 1, origin |-> j,
     rows |-> [i \in 1..Len(keys) |-> [m |-> j, i |-> i, key |-> keys[i]]]]

MkInput(keyss) == [j \in 1..Len(keyss) |-> MkMorsel(j, keyss[j])]

KeySeqs == UNION {[1..h -> KeyDomain] : h \in MorselHeights}
Inputs == UNION {[1..n -> KeySeqs] : n \in 0..MaxMorsels}

height(df) == Len(df)

(***************************************************************************)
(* JoinArgs and EquiJoinParams.                                            *)
(***************************************************************************)
\* A key that matches nothing: a null key when nulls are not equal
\* (HashKeys::from_df with nulls_equal).
is_null(k) == k = NULL /\ ~args.nulls_equal

\* A variant of emit_unmatched_build with the join types of the other side.
emit_unmatched_build_swapped(n) ==
    IF unwrap(n.left_is_build)
    THEN args.how \in {"Right", "Full"}
    ELSE args.how \in {"Left", "Full"}

\* EquiJoinParams::emit_unmatched_build
emit_unmatched_build(n) ==
    IF unwrap(n.left_is_build)
    THEN args.how \in {"Left", "Full"}
    ELSE args.how \in {"Right", "Full"}

\* A variant of emit_unmatched_probe that holds for every join type.
emit_unmatched_probe_all(n) == TRUE

\* EquiJoinParams::emit_unmatched_probe
emit_unmatched_probe(n) ==
    IF unwrap(n.left_is_build)
    THEN args.how \in {"Right", "Full"}
    ELSE args.how \in {"Left", "Full"}

(***************************************************************************)
(* HashPartitioner and HashKeys (polars-utils, polars-expr).               *)
(***************************************************************************)
\* HashPartitioner::hash_to_partition with num_partitions = n; partitions
\* are numbered from 1 here.
hash_to_partition(k, n) == (k % n) + 1

\* HashPartitioner::null_partition
null_partition == 1

\* HashKeys::gen_partition_idxs: per partition the ascending row indices;
\* rows with a null key are given a partition only with partition_nulls.
gen_partition_idxs(keys, n, partition_nulls) ==
    [p \in 1..n |->
        AscSeq({i \in 1..Len(keys) :
                  IF is_null(keys[i])
                  THEN partition_nulls /\ p = null_partition
                  ELSE hash_to_partition(keys[i], n) = p})]

\* HashKeys::sketch_cardinality followed by CardinalitySketch::estimate:
\* the number of distinct keys of the morsels.
estimate_cardinality(morsels) ==
    Cardinality(UNION {{r.key : r \in Range(mo.rows)} : mo \in Range(morsels)})

(***************************************************************************)
(* ChunkedIdxTable (polars-expr): the keys inserted chunk by chunk, and    *)
(* the set of keys marked as matched.  A ChunkId is <<chunk, idx>>; the    *)
(* null ChunkId is <<0, 0>>.                                               *)
(***************************************************************************)
NullChunkId == <<0, 0>>

new_empty == [chunks |-> <<>>, marked |-> {}]

\* insert_key_chunk(keys, track_unmatchable)
insert_key_chunk(t, keys, track_unmatchable) ==
    [t EXCEPT !.chunks = Append(@, [keys |-> keys, track |-> track_unmatchable])]

\* The ChunkIds of the table in insertion order.
AllIds(t) ==
    Flatten([c \in 1..Len(t.chunks) |->
                [i \in 1..Len(t.chunks[c].keys) |-> <<c, i>>]])

KeyAt(t, id) == t.chunks[id[1]].keys[id[2]]

\* The ChunkIds among ids whose key is k, for a key k that can match.
IdsWithKey(t, ids, k) ==
    Gather(ids, AscSeq({j \in 1..Len(ids) : KeyAt(t, ids[j]) = k /\ ~is_null(k)}))

\* The ChunkIds stored for a key that can match, in insertion order.
IdsOfKey(t, k) == IdsWithKey(t, AllIds(t), k)

RECURSIVE EntriesFrom(_, _, _)
\* The keys of the table: each distinct key once, in order of first
\* insertion.
EntriesFrom(t, ids, seen) ==
    IF ids = <<>> THEN <<>>
    ELSE IF is_null(KeyAt(t, Head(ids))) \/ KeyAt(t, Head(ids)) \in seen
    THEN EntriesFrom(t, Tail(ids), seen)
    ELSE <<[key |-> KeyAt(t, Head(ids)), ids |-> IdsOfKey(t, KeyAt(t, Head(ids)))]>>
         \o EntriesFrom(t, Tail(ids), seen \cup {KeyAt(t, Head(ids))})

\* The tracked rows with a null key among ids, each an entry of its own.
NullEntriesOf(ids, sel) == [j \in 1..Len(sel) |-> [key |-> NULL, ids |-> <<ids[sel[j]]>>]]

NullIdsOf(t, ids) ==
    AscSeq({j \in 1..Len(ids) :
               is_null(KeyAt(t, ids[j])) /\ t.chunks[ids[j][1]].track})

EntriesOf(t, ids) == EntriesFrom(t, ids, {}) \o NullEntriesOf(ids, NullIdsOf(t, ids))

Entries(t) == EntriesOf(t, AllIds(t))

num_keys(t) == Len(Entries(t))

IsMarked(t, e) == ~is_null(e.key) /\ e.key \in t.marked

\* What probing finds for one key: the ChunkIds of the key or, for a key
\* without a match and with emit_unmatched, the null ChunkId.
table_match_of(found, emit_unmatched) ==
    IF found # <<>> THEN found
    ELSE IF emit_unmatched THEN <<NullChunkId>> ELSE <<>>

\* The accumulator after the key at idx was probed with the result found.
probe_key(acc, idx, key, found, mark_matches, emit_unmatched) ==
    [consumed |-> acc.consumed + 1,
     table_match |-> acc.table_match \o table_match_of(found, emit_unmatched),
     probe_match |-> acc.probe_match
                     \o [j \in 1..Len(table_match_of(found, emit_unmatched)) |-> idx],
     marked |-> IF found # <<>> /\ mark_matches
                THEN acc.marked \cup {key}
                ELSE acc.marked]

RECURSIVE probe_subset(_, _, _, _, _, _, _, _)
\* probe_subset(keys, idxs, table_match, probe_match, mark_matches,
\* emit_unmatched, limit): probes the keys at idxs in order until
\* table_match holds limit entries (the test follows each key); returns how
\* many idxs were consumed.  acc is [consumed, table_match, probe_match,
\* marked].
probe_subset(t, keys, idxs, mark_matches, emit_unmatched, limit, from, acc) ==
    IF from > Len(idxs) \/ (from > 1 /\ Len(acc.table_match) >= limit) THEN acc
    ELSE probe_subset(t, keys, idxs, mark_matches, emit_unmatched, limit, from + 1,
                      probe_key(acc, idxs[from], keys[idxs[from]],
                                IdsOfKey(t, keys[idxs[from]]),
                                mark_matches, emit_unmatched))

ProbeAcc0(t) ==
    [consumed |-> 0, table_match |-> <<>>, probe_match |-> <<>>,
     marked |-> t.marked]

RECURSIVE unmarked_entries(_, _, _, _, _)
\* The loop of unmarked_keys over the entries es of the table.
unmarked_entries(t, es, offset, limit, acc) ==
    IF offset >= Len(es) \/ (acc.consumed > 0 /\ Len(acc.out) >= limit) THEN acc
    ELSE unmarked_entries(t, es, offset + 1, limit,
                          [consumed |-> acc.consumed + 1,
                           out |-> IF IsMarked(t, es[offset + 1]) THEN acc.out
                                   ELSE acc.out \o es[offset + 1].ids])

\* unmarked_keys(out, offset, limit): the ChunkIds of the unmarked keys from
\* key number offset on, until out holds limit entries (the test follows
\* each key); acc is [consumed, out].
unmarked_keys(t, offset, limit, acc) == unmarked_entries(t, Entries(t), offset, limit, acc)

UnmarkedAcc0 == [consumed |-> 0, out |-> <<>>]

\* IdxSize::MAX as a limit no output reaches.
IdxSizeMAX == 1000000

\* take_chunked_unchecked / take_opt_chunked_unchecked: the rows of df at
\* the ChunkIds; the null ChunkId gives the null row.
take_chunked(df, ids) ==
    [j \in 1..Len(ids) |->
        IF ids[j] = NullChunkId THEN NoRow ELSE df[ids[j][1]][ids[j][2]]]

(***************************************************************************)
(* BufferedStream.                                                         *)
(***************************************************************************)
\* BufferedStream::new: the morsels relabelled start_offset, start_offset+1,
\* ...; post_buffer_offset is the seq after the last.
BufferedStream_new(morsels, start_offset) ==
    [morsels |-> [j \in 1..Len(morsels) |->
                     [morsels[j] EXCEPT !.seq = start_offset + j - 1]],
     post_buffer_offset |-> start_offset + Len(morsels)]

\* BufferedStream::default
BufferedStream_default == [morsels |-> <<>>, post_buffer_offset |-> 0]

\* BufferedStream::is_empty
is_empty(bs) == bs.morsels = <<>>

(***************************************************************************)
(* The state of the node.                                                  *)
(***************************************************************************)
SampleState_default == [left |-> <<>>, left_len |-> 0, right |-> <<>>, right_len |-> 0]

BuildPartition_default == [hash_keys |-> <<>>, frames |-> <<>>]

BuildState_default ==
    [partitions_per_worker |-> <<>>, sampled_probe_morsels |-> BufferedStream_default]

ProbeState_none ==
    [table_per_partition |-> <<>>, max_seq_sent |-> 0,
     sampled_probe_morsels |-> BufferedStream_default]

EmitUnmatchedState_none ==
    [partitions |-> <<>>, active_partition_idx |-> 0, offset_in_active_p |-> 0,
     morsel_seq |-> 0]

\* InMemorySourceNode: the frame, the seq of the next morsel, the rows sent.
InMemorySourceNode_none == [df |-> <<>>, seq |-> 0, pos |-> 0]

\* The partitioner each site constructs: its number of partitions
\* (HashPartitioner::new(num_pipelines, 0)).
\* A variant of ProbePartitioner with a single partition.
ProbePartitioner_single(n) == 1

SamplePartitioner(n) == n.num_pipelines
BuildPartitioner(n) == n.num_pipelines
ProbePartitioner(n) == n.num_pipelines

(***************************************************************************)
(* BuildState::partition_and_sink.                                         *)
(***************************************************************************)
\* partitions.resize_with(num_partitions, BuildPartition::default)
resize_partitions(ps, np) ==
    [p \in 1..np |-> IF p <= Len(ps) THEN ps[p] ELSE BuildPartition_default]

KeysOf(rows) == [i \in 1..Len(rows) |-> rows[i].key]

\* The partitions after the payload of a morsel, sliced per partition, is
\* pushed with the gathered keys and the seq of the morsel.
push_partitions(ps, morsel, np, hash_keys, partition_idxs) ==
    [p \in 1..Len(ps) |->
        IF p > np THEN ps[p]
        ELSE [hash_keys |-> Append(ps[p].hash_keys, Gather(hash_keys, partition_idxs[p])),
              frames |-> Append(ps[p].frames,
                                [seq |-> morsel.seq,
                                 df |-> Gather(morsel.rows, partition_idxs[p])])]]

\* The body of the receive loop for one morsel.
sink_morsel(ps, morsel, np, track_unmatchable) ==
    push_partitions(ps, morsel, np, KeysOf(morsel.rows),
                    gen_partition_idxs(KeysOf(morsel.rows), np, track_unmatchable))

RECURSIVE sink_all(_, _, _, _, _)
\* The workers of one scope sinking morsels; assign[j] is the worker that
\* receives the j-th morsel.
sink_all(ppw, morsels, assign, np, track_unmatchable) ==
    IF morsels = <<>> THEN ppw
    ELSE sink_all([ppw EXCEPT ![Head(assign)] =
                        sink_morsel(@, Head(morsels), np, track_unmatchable)],
                  Tail(morsels), Tail(assign), np, track_unmatchable)

(***************************************************************************)
(* SampleState::try_transition_to_build.                                   *)
(***************************************************************************)
left_saturated(ss) == ss.left_len >= SAMPLE_LIMIT
right_saturated(ss) == ss.right_len >= SAMPLE_LIMIT

\* A variant of sampling_done whose lopsided tests are strict.
sampling_done_strict(ss, left_done, right_done) ==
    \/ (left_done /\ right_done)
    \/ (left_done /\ ss.right_len > LOPSIDED_SAMPLE_FACTOR * ss.left_len)
    \/ (right_done /\ ss.left_len > LOPSIDED_SAMPLE_FACTOR * ss.right_len)

sampling_done(ss, left_done, right_done) ==
    \/ (left_done /\ right_done)
    \/ (left_done /\ ss.right_len >= LOPSIDED_SAMPLE_FACTOR * ss.left_len)
    \/ (right_done /\ ss.left_len >= LOPSIDED_SAMPLE_FACTOR * ss.right_len)

stop_sampling(ss, r) ==
    sampling_done(ss, r[0] = "Done" \/ left_saturated(ss),
                  r[1] = "Done" \/ right_saturated(ss))

\* The closure estimate_cardinalities: the estimates scaled by
\* min(len, SAMPLE_LIMIT) / len and truncated (0 for an empty side).
norm_cardinality(morsels, len) ==
    IF len = 0 THEN 0
    ELSE (estimate_cardinality(morsels) * Min2(len, SAMPLE_LIMIT)) \div len

\* Whether the decision calls estimate_cardinalities.
estimates_cardinalities(ss) ==
    CASE ~left_saturated(ss) /\ ~right_saturated(ss) ->
           ~(\/ ss.left_len * LOPSIDED_SAMPLE_FACTOR < ss.right_len
             \/ ss.left_len > ss.right_len * LOPSIDED_SAMPLE_FACTOR)
      [] left_saturated(ss) /\ right_saturated(ss) -> TRUE
      [] OTHER -> FALSE

\* A variant of left_is_build_from that chooses the larger side of a
\* lopsided sample.
left_is_build_from_larger(ss, lc, rc) ==
    CASE ~left_saturated(ss) /\ ~right_saturated(ss) ->
           IF \/ ss.left_len * LOPSIDED_SAMPLE_FACTOR < ss.right_len
              \/ ss.left_len > ss.right_len * LOPSIDED_SAMPLE_FACTOR
           THEN ss.left_len > ss.right_len
           ELSE (ss.left_len * 3 + 3 * lc) + ss.right_len
                  < ss.left_len + (ss.right_len * 3 + 3 * rc)
      [] ~left_saturated(ss) /\ right_saturated(ss) -> TRUE
      [] left_saturated(ss) /\ ~right_saturated(ss) -> FALSE
      [] OTHER -> lc < rc

\* A variant of left_is_build_from that chooses the saturated side when
\* one side is saturated.
left_is_build_from_saturated(ss, lc, rc) ==
    CASE ~left_saturated(ss) /\ ~right_saturated(ss) ->
           IF \/ ss.left_len * LOPSIDED_SAMPLE_FACTOR < ss.right_len
              \/ ss.left_len > ss.right_len * LOPSIDED_SAMPLE_FACTOR
           THEN ss.left_len < ss.right_len
           ELSE (ss.left_len * 3 + 3 * lc) + ss.right_len
                  < ss.left_len + (ss.right_len * 3 + 3 * rc)
      [] ~left_saturated(ss) /\ right_saturated(ss) -> FALSE
      [] left_saturated(ss) /\ ~right_saturated(ss) -> TRUE
      [] OTHER -> lc < rc

\* A variant of left_is_build_from that chooses the left side when the two
\* costs are equal.
left_is_build_from_tie_left(ss, lc, rc) ==
    CASE ~left_saturated(ss) /\ ~right_saturated(ss) ->
           IF \/ ss.left_len * LOPSIDED_SAMPLE_FACTOR < ss.right_len
              \/ ss.left_len > ss.right_len * LOPSIDED_SAMPLE_FACTOR
           THEN ss.left_len < ss.right_len
           ELSE (ss.left_len * 3 + 3 * lc) + ss.right_len
                  <= ss.left_len + (ss.right_len * 3 + 3 * rc)
      [] ~left_saturated(ss) /\ right_saturated(ss) -> TRUE
      [] left_saturated(ss) /\ ~right_saturated(ss) -> FALSE
      [] OTHER -> lc < rc

\* The decision from the two normalised cardinalities.
left_is_build_from(ss, lc, rc) ==
    CASE ~left_saturated(ss) /\ ~right_saturated(ss) ->
           IF \/ ss.left_len * LOPSIDED_SAMPLE_FACTOR < ss.right_len
              \/ ss.left_len > ss.right_len * LOPSIDED_SAMPLE_FACTOR
           THEN ss.left_len < ss.right_len
           \* left_build_cost + right_probe_cost < left_probe_cost + right_build_cost
           ELSE (ss.left_len * 3 + 3 * lc) + ss.right_len
                  < ss.left_len + (ss.right_len * 3 + 3 * rc)
      [] ~left_saturated(ss) /\ right_saturated(ss) -> TRUE
      [] left_saturated(ss) /\ ~right_saturated(ss) -> FALSE
      [] OTHER -> lc < rc

choose_left_is_build(ss) ==
    left_is_build_from(ss, norm_cardinality(ss.left, ss.left_len),
                       norm_cardinality(ss.right, ss.right_len))

\* The number of sampled morsels of the side that will build.
NumSampledBuild(ss) ==
    IF choose_left_is_build(ss) THEN Len(ss.left) ELSE Len(ss.right)

\* A variant of sampled_partitions that leaves the last sampled build morsel
\* in the buffer.
sampled_partitions_but_last(n1, sampled_build_morsels, assign, np) ==
    IF is_empty(sampled_build_morsels) THEN [w \in 1..n1.num_pipelines |-> <<>>]
    ELSE sink_all([w \in 1..n1.num_pipelines |-> resize_partitions(<<>>, np)],
                  SubSeq(sampled_build_morsels.morsels, 1,
                         Len(sampled_build_morsels.morsels) - 1),
                  assign, np, emit_unmatched_build(n1))

\* The partitions the sampled build morsels are sunk into, per worker.
sampled_partitions(n1, sampled_build_morsels, assign, np) ==
    IF is_empty(sampled_build_morsels) THEN [w \in 1..n1.num_pipelines |-> <<>>]
    ELSE sink_all([w \in 1..n1.num_pipelines |-> resize_partitions(<<>>, np)],
                  sampled_build_morsels.morsels, assign, np, emit_unmatched_build(n1))

\* The node in its Build state, for the node n1 with left_is_build set.
to_build(n1, sampled_build_morsels, sampled_probe_morsels, assign) ==
    [n1 EXCEPT !.state = "Build",
               !.sample_state = SampleState_default,
               !.build_state =
                   [partitions_per_worker |->
                        sampled_partitions(n1, sampled_build_morsels, assign,
                                           SamplePartitioner(n1)),
                    sampled_probe_morsels |-> sampled_probe_morsels]]

\* A variant of transition_with that leaves the index table unset.
transition_with_no_table(n, left_is_build, left_stream, right_stream, assign) ==
    to_build([n EXCEPT !.left_is_build = Some(left_is_build)],
             IF left_is_build THEN left_stream ELSE right_stream,
             IF left_is_build THEN right_stream ELSE left_stream,
             assign)

\* The handover of try_transition_to_build: left_is_build and the index
\* table are set and the node moves to Build.
transition_with(n, left_is_build, left_stream, right_stream, assign) ==
    to_build([n EXCEPT !.left_is_build = Some(left_is_build),
                       !.table = Some(IF left_is_build THEN "left_key_schema"
                                      ELSE "right_key_schema")],
             IF left_is_build THEN left_stream ELSE right_stream,
             IF left_is_build THEN right_stream ELSE left_stream,
             assign)

\* try_transition_to_build; the node is returned unchanged for None.
\* assign is the worker each sampled build morsel is popped by.
try_transition_to_build(n, r, assign) ==
    IF ~stop_sampling(n.sample_state, r) THEN n
    ELSE transition_with(n, choose_left_is_build(n.sample_state),
                         BufferedStream_new(n.sample_state.left, 0),
                         BufferedStream_new(n.sample_state.right, 0),
                         assign)

(***************************************************************************)
(* BuildState::finalize.                                                   *)
(***************************************************************************)
\* partitions_per_worker[0] is indexed without a check, and
\* results_per_partition[p] for every partition p of every worker.
finalize_panics(bs) ==
    \/ Len(bs.partitions_per_worker) = 0
    \/ \E w \in 1..Len(bs.partitions_per_worker) :
          Len(bs.partitions_per_worker[w]) > Len(bs.partitions_per_worker[1])

\* The partition results of the workers that have partition p, in worker
\* order (the transpose).
results_of_partition(ppw, p) ==
    [j \in 1..Len(AscSeq({w \in 1..Len(ppw) : Len(ppw[w]) >= p})) |->
        ppw[AscSeq({w \in 1..Len(ppw) : Len(ppw[w]) >= p})[j]][p]]

\* The (seq, hash_keys, frame) triples of a partition in worker order and,
\* within a worker, arrival order; sk is the seq.
combined_of(results) ==
    Flatten([w \in 1..Len(results) |->
               [f \in 1..Len(results[w].frames) |->
                   [sk |-> results[w].frames[f].seq,
                    hash_keys |-> results[w].hash_keys[f],
                    frame |-> results[w].frames[f].df]]])

\* A variant of insert_chunk that does not skip the frames of height 0.
insert_chunk_unskipped(pt, c, track_unmatchable, with_seq) ==
    [table |-> insert_key_chunk(pt.table, c.hash_keys, track_unmatchable),
     df |-> Append(pt.df, c.frame),
     chunk_seq_ids |-> IF with_seq THEN Append(pt.chunk_seq_ids, c.sk)
                       ELSE pt.chunk_seq_ids]

\* One iteration of the insertion loop.
insert_chunk(pt, c, track_unmatchable, with_seq) ==
    IF height(c.frame) = 0 THEN pt
    ELSE [table |-> insert_key_chunk(pt.table, c.hash_keys, track_unmatchable),
          df |-> Append(pt.df, c.frame),
          chunk_seq_ids |-> IF with_seq THEN Append(pt.chunk_seq_ids, c.sk)
                            ELSE pt.chunk_seq_ids]

RECURSIVE insert_chunks(_, _, _, _)
\* The insertion loop: zero-height frames are skipped; chunk_seq_ids is
\* pushed to only with preserve_order_build.
insert_chunks(pt, combined, track_unmatchable, with_seq) ==
    IF combined = <<>> THEN pt
    ELSE insert_chunks(insert_chunk(pt, Head(combined), track_unmatchable, with_seq),
                       Tail(combined), track_unmatchable, with_seq)

ProbeTable_empty == [table |-> new_empty, df |-> <<>>, chunk_seq_ids |-> <<>>]

\* The ProbeTable built for one partition.  The seqs of the frames of a
\* partition are distinct, so sort_unstable_by_key has one result.
build_probe_table(n, results) ==
    insert_chunks(ProbeTable_empty,
                  IF n.preserve_order_build THEN StableSort(combined_of(results))
                  ELSE combined_of(results),
                  emit_unmatched_build(n), n.preserve_order_build)

\* finalize, for a build state on which it does not panic.
finalize(n) ==
    [table_per_partition |->
        [p \in 1..Len(n.build_state.partitions_per_worker[1]) |->
            build_probe_table(n, results_of_partition(
                                     n.build_state.partitions_per_worker, p))],
     max_seq_sent |-> 0,
     sampled_probe_morsels |-> n.build_state.sampled_probe_morsels]

(***************************************************************************)
(* Joined rows: [l, r], the left and the right row (NoRow for nulls).      *)
(***************************************************************************)
\* hstack of the build and the probe frame in the join's column order.
hstack(n, build_df, probe_df) ==
    [j \in 1..Len(build_df) |->
        IF unwrap(n.left_is_build)
        THEN [l |-> build_df[j], r |-> probe_df[j]]
        ELSE [l |-> probe_df[j], r |-> build_df[j]]]

\* DataFrame::full_null of the other side's payload schema.
full_null(len) == [j \in 1..len |-> NoRow]

(***************************************************************************)
(* ProbeState::ordered_unmatched.                                          *)
(***************************************************************************)
SortKey(seq, idx) == seq * 1000 + idx

\* The rows of out_df with their __SEQ and __IDX columns (as sk).
with_seq_idx(pt, unmarked_idxs, out_df) ==
    [j \in 1..Len(out_df) |->
        [row |-> out_df[j],
         sk |-> SortKey(pt.chunk_seq_ids[unmarked_idxs[j][1]], unmarked_idxs[j][2])]]

unmatched_frame(n, pt, unmarked_idxs) ==
    with_seq_idx(pt, unmarked_idxs,
                 hstack(n, take_chunked(pt.df, unmarked_idxs),
                        full_null(Len(unmarked_idxs))))

\* The frame of one partition.
ordered_unmatched_partition(n, pt) ==
    unmatched_frame(n, pt, unmarked_keys(pt.table, 0, IdxSizeMAX, UnmarkedAcc0).out)

\* The frames ordered_unmatched may return: the sort by (__SEQ, __IDX) does
\* not maintain the order of equal elements.
ordered_unmatched(n) ==
    {[j \in 1..Len(o) |-> o[j].row] :
        o \in SortedOrders(Flatten(
                 [p \in 1..Len(n.probe_state.table_per_partition) |->
                     ordered_unmatched_partition(
                         n, n.probe_state.table_per_partition[p])]))}

(***************************************************************************)
(* EquiJoinNode::update_state, as the sequence of its steps.  Each step    *)
(* maps the node to the node; the states passed through are collected in   *)
(* the trail.                                                              *)
(***************************************************************************)
build_idx(n) == IF n.left_is_build = Some(TRUE) THEN 0 ELSE 1
probe_idx(n) == 1 - build_idx(n)

\* A variant of ToDone that leaves the node in the state of a new node.
ToDone_restart(n) ==
    [n EXCEPT !.state = "Sample",
              !.sample_state = SampleState_default,
              !.build_state = BuildState_default,
              !.probe_state = ProbeState_none,
              !.emit_state = EmitUnmatchedState_none,
              !.src_node = InMemorySourceNode_none]

\* Dropping the payload of the state that is left.
ToDone(n) ==
    [n EXCEPT !.state = "Done",
              !.sample_state = SampleState_default,
              !.build_state = BuildState_default,
              !.probe_state = ProbeState_none,
              !.emit_state = EmitUnmatchedState_none,
              !.src_node = InMemorySourceNode_none]

\* A variant of step_send_done that ignores send[0].
step_send_done_ignored(n, s) == n

\* if send[0] == PortState::Done { self.state = Done }
step_send_done(n, s) == IF s = "Done" THEN ToDone(n) ELSE n

\* if let Sample(..) = state { try_transition_to_build(..) }
step_sample(n, r, assign) ==
    IF n.state = "Sample" THEN try_transition_to_build(n, r, assign) ELSE n

\* Whether the Build step calls finalize, and whether that call panics.
build_finalizes(n, r) == n.state = "Build" /\ r[build_idx(n)] = "Done"
build_panics(n, r) == build_finalizes(n, r) /\ finalize_panics(n.build_state)

\* if let Build(..) = state { if recv[build_idx] == Done { finalize } }
step_build(n, r) ==
    IF build_finalizes(n, r) /\ ~finalize_panics(n.build_state)
    THEN [n EXCEPT !.state = "Probe",
                   !.probe_state = finalize(n),
                   !.build_state = BuildState_default]
    ELSE n

\* A variant of probe_finished that does not look at the replay buffer.
probe_finished_unreplayed(n, r) ==
    /\ n.state = "Probe"
    /\ r[probe_idx(n)] = "Done"

\* Whether the Probe step leaves Probe.
probe_finished(n, r) ==
    /\ n.state = "Probe"
    /\ is_empty(n.probe_state.sampled_probe_morsels)
    /\ r[probe_idx(n)] = "Done"

\* The frames the Probe step may hand to the in-memory source.
unmatched_choices(n, r) ==
    IF probe_finished(n, r) /\ emit_unmatched_build(n) /\ n.preserve_order_build
    THEN ordered_unmatched(n)
    ELSE {<<>>}

\* if let Probe(..) = state { .. }
step_probe(n, r, unmatched) ==
    IF ~probe_finished(n, r) THEN n
    ELSE IF emit_unmatched_build(n)
    THEN IF n.preserve_order_build
         THEN [n EXCEPT !.state = "EmitUnmatchedBuildInOrder",
                        !.src_node = [df |-> unmatched,
                                      seq |-> n.probe_state.max_seq_sent + 1,
                                      pos |-> 0],
                        !.probe_state = ProbeState_none]
         ELSE [n EXCEPT !.state = "EmitUnmatchedBuild",
                        !.emit_state =
                            [partitions |-> n.probe_state.table_per_partition,
                             active_partition_idx |-> 0,
                             offset_in_active_p |-> 0,
                             morsel_seq |-> n.probe_state.max_seq_sent + 1],
                        !.probe_state = ProbeState_none]
    ELSE ToDone(n)

\* A variant of step_emit that moves to Done one partition early.
step_emit_early(n) ==
    IF /\ n.state = "EmitUnmatchedBuild"
       /\ n.emit_state.active_partition_idx + 1 >= Len(n.emit_state.partitions)
    THEN ToDone(n)
    ELSE n

\* if let EmitUnmatchedBuild(..) = state { .. }
step_emit(n) ==
    IF /\ n.state = "EmitUnmatchedBuild"
       /\ n.emit_state.active_partition_idx >= Len(n.emit_state.partitions)
    THEN ToDone(n)
    ELSE n

\* InMemorySourceNode::update_state: Done once the frame is sent.
src_node_send(src) == IF src.pos >= Len(src.df) THEN "Done" ELSE "Ready"

\* A variant of probe_ports that leaves send[0] and recv[probe] as passed.
probe_ports_not_swapped(n, r, s, samples_consumed) ==
    [n |-> n,
     send |-> IF r[probe_idx(n)] # "Done" THEN s
              ELSE IF samples_consumed THEN "Done" ELSE "Ready",
     recv |-> [i \in {0, 1} |-> IF i = build_idx(n) THEN "Done" ELSE r[i]]]

\* The port states of the Probe arm.
probe_ports(n, r, s, samples_consumed) ==
    [n |-> n,
     send |-> IF r[probe_idx(n)] # "Done" THEN r[probe_idx(n)]
              ELSE IF samples_consumed THEN "Done" ELSE "Ready",
     recv |-> [i \in {0, 1} |->
                 IF i = build_idx(n) THEN "Done"
                 ELSE IF r[probe_idx(n)] # "Done" THEN s ELSE r[probe_idx(n)]]]

\* A variant of build_ports that opens both input ports.
build_ports_both_open(n, r) ==
    [n |-> n, send |-> "Blocked",
     recv |-> [i \in {0, 1} |-> IF r[i] = "Done" THEN "Done" ELSE "Ready"]]

\* The port states of the Build arm.
build_ports(n, r) ==
    [n |-> n, send |-> "Blocked",
     recv |-> [i \in {0, 1} |->
                 IF r[i] = "Done" THEN "Done"
                 ELSE IF i = build_idx(n) THEN "Ready" ELSE "Blocked"]]

\* The port states of the EmitUnmatchedBuildInOrder arm, for the send state
\* of the in-memory source.
in_order_ports(n, send1) ==
    [n |-> IF send1 = "Done" THEN ToDone(n) ELSE n,
     send |-> send1, recv |-> [i \in {0, 1} |-> "Done"]]

\* The final match: the port states, and the step from
\* EmitUnmatchedBuildInOrder to Done.
step_ports(n, r, s) ==
    CASE n.state = "Sample" ->
           [n |-> n, send |-> "Blocked",
            recv |-> [i \in {0, 1} |->
                        IF r[i] = "Done" THEN "Done"
                        ELSE IF (IF i = 0 THEN n.sample_state.left_len
                                 ELSE n.sample_state.right_len) < SAMPLE_LIMIT
                             THEN "Ready" ELSE "Blocked"]]
      [] n.state = "Build" -> build_ports(n, r)
      [] n.state = "Probe" ->
           probe_ports(n, r, s, is_empty(n.probe_state.sampled_probe_morsels))
      [] n.state = "EmitUnmatchedBuild" ->
           [n |-> n, send |-> "Ready", recv |-> [i \in {0, 1} |-> "Done"]]
      [] n.state = "EmitUnmatchedBuildInOrder" ->
           in_order_ports(n, src_node_send(n.src_node))
      [] OTHER ->
           [n |-> n, send |-> "Done", recv |-> [i \in {0, 1} |-> "Done"]]

\* A call of update_state in progress: the node, and the states the call
\* has passed through so far, without repetitions.
Call0(n) == [n |-> n, trail |-> <<n.state>>]

Moved(c, n2) ==
    [n |-> n2,
     trail |-> IF n2.state = c.trail[Len(c.trail)] THEN c.trail
               ELSE Append(c.trail, n2.state)]

call_send_done(c, s) == Moved(c, step_send_done(c.n, s))
call_sample(c, r, assign) == Moved(c, step_sample(c.n, r, assign))
call_build(c, r) == Moved(c, step_build(c.n, r))
call_probe(c, r, unmatched) == Moved(c, step_probe(c.n, r, unmatched))
call_emit(c) == Moved(c, step_emit(c.n))

with_ports(c, res) ==
    [n |-> res.n, recv |-> res.recv, send |-> res.send, trail |-> Moved(c, res.n).trail]

call_ports(c, r, s) == with_ports(c, step_ports(c.n, r, s))

\* The call up to the Build step, which may panic.
update_to_build(n, r, s, assign) ==
    call_sample(call_send_done(Call0(n), s), r, assign)

\* The call from the Probe step on.
update_from_probe(c, r, s, unmatched) ==
    call_ports(call_emit(call_probe(c, r, unmatched)), r, s)

\* The call from the Build step on.
update_from_build(c, r, s, unmatched) ==
    update_from_probe(call_build(c, r), r, s, unmatched)

\* update_state(recv, send) on node n, for a call that does not panic.
update_state(n, r, s, assign, unmatched) ==
    update_from_build(update_to_build(n, r, s, assign), r, s, unmatched)

(***************************************************************************)
(* ProbeState::partition_and_probe: the body of the receive loop for one   *)
(* morsel.  The result is [tables, sent, broke, closed, probed]: the tables *)
(* with the new marks, the morsels whose send succeeded, whether the task  *)
(* left the receive loop, whether the output is closed, and the            *)
(* (key, partition) pairs that were probed.  closes_at = k > 0 makes the   *)
(* k-th send of this morsel the first to fail; 0 leaves the output as it   *)
(* is.                                                                     *)
(***************************************************************************)
\* A variant of OutMorsel that gives every output morsel the default seq.
OutMorsel_default_seq(df, morsel, from) ==
    [seq |-> 0, df |-> df, from |-> from, src |-> morsel.origin]

OutMorsel(df, morsel, from) ==
    [seq |-> morsel.seq, df |-> df, from |-> from, src |-> morsel.origin]

\* Whether send number k of this morsel fails.
SendFails(closed, closes_at, k) == closed \/ (closes_at > 0 /\ k >= closes_at)

ProbedPairs(keys, idxs, p) == {[key |-> keys[idxs[j]], p |-> p] : j \in 1..Len(idxs)}

\* The number of (table, partition_idxs) pairs the zip yields.
NumZipped(tables, partition_idxs) == Min2(Len(tables), Len(partition_idxs))

\* The output frame of one probe: the gathered build rows next to the
\* gathered probe rows.
probe_out_df(n, pt, payload, res) ==
    hstack(n, take_chunked(pt.df, res.table_match), Gather(payload, res.probe_match))

\* out_df with its __POLARS_PROBE_PRESERVE_ORDER_IDX column (as sk).
with_probe_idx(out_df, probe_match) ==
    [j \in 1..Len(out_df) |-> [row |-> out_df[j], sk |-> probe_match[j]]]

\* The body of the loop over the partitions in ordered mode, for the result
\* res of probe_subset.
ordered_body(n, keys, payload, idxs, p, acc, res) ==
    [tables |-> [acc.tables EXCEPT ![p].table.marked = res.marked],
     out_per_partition |->
         IF res.table_match = <<>> THEN acc.out_per_partition
         ELSE Append(acc.out_per_partition,
                     with_probe_idx(probe_out_df(n, acc.tables[p], payload, res),
                                    res.probe_match)),
     probed |-> acc.probed \cup ProbedPairs(keys, idxs, p)]

RECURSIVE ordered_partitions(_, _, _, _, _, _)
\* The loop over the partitions in ordered mode: one unbounded probe per
\* partition; acc is [tables, out_per_partition, probed].
ordered_partitions(n, keys, payload, partition_idxs, p, acc) ==
    IF p > NumZipped(acc.tables, partition_idxs) THEN acc
    ELSE ordered_partitions(
             n, keys, payload, partition_idxs, p + 1,
             ordered_body(n, keys, payload, partition_idxs[p], p, acc,
                          probe_subset(acc.tables[p].table, keys, partition_idxs[p],
                                       emit_unmatched_build(n), emit_unmatched_probe(n),
                                       IdxSizeMAX, 1, ProbeAcc0(acc.tables[p].table))))

\* A variant of sort_by_probe_idx that leaves the frame as concatenated.
sort_by_probe_idx_skipped(tagged) == tagged

\* The sort of the ordered output by __POLARS_PROBE_PRESERVE_ORDER_IDX
\* (maintain_order: true).
sort_by_probe_idx(tagged) == StableSort(tagged)

RowsOf(tagged) == [j \in 1..Len(tagged) |-> tagged[j].row]

\* The send of the ordered output of a morsel, if it has any.
ordered_send(morsel, acc, closed, fails) ==
    [tables |-> acc.tables,
     sent |-> IF acc.out_per_partition # <<>> /\ ~fails
              THEN <<OutMorsel(RowsOf(sort_by_probe_idx(Flatten(acc.out_per_partition))),
                               morsel, "Probe")>>
              ELSE <<>>,
     broke |-> acc.out_per_partition # <<>> /\ fails,
     failed |-> IF acc.out_per_partition # <<>> /\ fails THEN 1 ELSE 0,
     after_fail |-> FALSE,
     limits |-> {}, limits_after_fail |-> {},
     produced |-> <<>>, emitted |-> <<>>, len_ok |-> TRUE,
     closed |-> closed \/ (acc.out_per_partition # <<>> /\ fails),
     probed |-> acc.probed]

probe_ordered(n, tables, morsel, partition_idxs, closed, closes_at) ==
    ordered_send(morsel,
                 ordered_partitions(n, KeysOf(morsel.rows), morsel.rows, partition_idxs, 1,
                                    [tables |-> tables, out_per_partition |-> <<>>,
                                     probed |-> {}]),
                 closed, SendFails(closed, closes_at, 1))

\* The total height of the frames fs.
FramesHeight(fs) == SumSeq([j \in 1..Len(fs) |-> Len(fs[j])])

\* The state of the loops of the unordered mode after a probe_subset with
\* result res over idxs, the rest of the indices of partition st.p.
after_probe(st, keys, idxs, limit, res) ==
    [st EXCEPT !.tables[st.p].table.marked = res.marked,
               !.probed = @ \cup ProbedPairs(keys, SubSeq(idxs, 1, res.consumed), st.p),
               !.limits = @ \cup {limit},
               !.limits_after_fail = IF st.failed > 0 THEN @ \cup {limit} ELSE @,
               !.after_fail = @ \/ st.failed > 0,
               !.len_ok = @ /\ st.out_len = FramesHeight(st.out_frames),
               !.offset = @ + res.consumed]

\* A variant of send_out that leaves out_len as it is.
send_out_keeps_len(st, morsel, fails) ==
    [st EXCEPT !.out_len = FramesHeight(st.out_frames),
               !.out_frames = <<>>,
               !.emitted = Append(@, st.out_frames),
               !.nsends = @ + 1,
               !.closed = @ \/ fails,
               !.failed = IF fails THEN @ + 1 ELSE @,
               !.sent = IF fails THEN @
                        ELSE Append(@, OutMorsel(Flatten(st.out_frames), morsel, "Probe")),
               !.p = IF fails THEN @ + 1 ELSE @,
               !.offset = IF fails THEN 0 ELSE @]

\* The output morsel is sent: a failed send breaks out of the loop over the
\* offsets only, and the loop over the partitions goes on.
send_out(st, morsel, fails) ==
    [st EXCEPT !.out_len = 0,
               !.out_frames = <<>>,
               !.emitted = Append(@, st.out_frames),
               !.nsends = @ + 1,
               !.closed = @ \/ fails,
               !.failed = IF fails THEN @ + 1 ELSE @,
               !.sent = IF fails THEN @
                        ELSE Append(@, OutMorsel(Flatten(st.out_frames), morsel, "Probe")),
               !.p = IF fails THEN @ + 1 ELSE @,
               !.offset = IF fails THEN 0 ELSE @]

\* A variant of push_out that sends once out_len exceeds the limit.
push_out_late(st, morsel, closes_at, out_df) ==
    IF st.out_len + Len(out_df) > ideal_morsel_size
    THEN send_out([st EXCEPT !.out_frames = Append(@, out_df),
                             !.produced = Append(@, out_df)], morsel,
                  SendFails(st.closed, closes_at, st.nsends + 1))
    ELSE [st EXCEPT !.out_len = @ + Len(out_df), !.out_frames = Append(@, out_df),
                    !.produced = Append(@, out_df)]

\* out_df is pushed to out_frames, and sent once out_len reaches the limit.
push_out(st, morsel, closes_at, out_df) ==
    IF st.out_len + Len(out_df) >= ideal_morsel_size
    THEN send_out([st EXCEPT !.out_frames = Append(@, out_df),
                             !.produced = Append(@, out_df)], morsel,
                  SendFails(st.closed, closes_at, st.nsends + 1))
    ELSE [st EXCEPT !.out_len = @ + Len(out_df), !.out_frames = Append(@, out_df),
                    !.produced = Append(@, out_df)]

\* The body of the loop over the offsets from the result of probe_subset on.
unordered_body(n, morsel, closes_at, st, res) ==
    IF res.table_match = <<>> THEN st
    ELSE push_out(st, morsel, closes_at,
                  probe_out_df(n, st.tables[st.p], morsel.rows, res))

\* The state after the result res of a probe_subset over idxs.
unordered_probed(n, keys, morsel, closes_at, st, idxs, limit, res) ==
    unordered_body(n, morsel, closes_at, after_probe(st, keys, idxs, limit, res), res)

\* One probe_subset of the loop over the offsets: over idxs with the limit
\* probe_limit - out_len.
unordered_probe(n, keys, morsel, closes_at, st, idxs, limit) ==
    unordered_probed(n, keys, morsel, closes_at, st, idxs, limit,
                     probe_subset(st.tables[st.p].table, keys, idxs,
                                  emit_unmatched_build(n), emit_unmatched_probe(n),
                                  limit, 1, ProbeAcc0(st.tables[st.p].table)))

RECURSIVE unordered_loop(_, _, _, _, _, _)
\* The loops of the unordered mode: over the partitions st.p and, within a
\* partition, over the offsets st.offset.  st is [p, offset, tables,
\* out_frames, out_len, sent, nsends, closed, probed, limits,
\* limits_after_fail, failed, after_fail, produced, emitted, len_ok]: failed
\* counts the sends of this morsel that failed, after_fail tells whether a
\* probe_subset ran after one of them, limits holds the limit of every
\* probe_subset and limits_after_fail of those that ran after a failed
\* send, produced holds every frame pushed to out_frames, emitted the
\* frames of every morsel handed to send, and len_ok tells whether out_len
\* was the height of out_frames at every probe_subset and at the flush.
unordered_loop(n, keys, morsel, partition_idxs, closes_at, st) ==
    IF st.p > NumZipped(st.tables, partition_idxs) THEN st
    ELSE IF st.offset >= Len(partition_idxs[st.p])
    THEN unordered_loop(n, keys, morsel, partition_idxs, closes_at,
                        [st EXCEPT !.p = @ + 1, !.offset = 0])
    ELSE unordered_loop(n, keys, morsel, partition_idxs, closes_at,
                        unordered_probe(n, keys, morsel, closes_at, st,
                                        SubSeq(partition_idxs[st.p], st.offset + 1,
                                               Len(partition_idxs[st.p])),
                                        ideal_morsel_size - st.out_len))

\* The send of what is left in out_frames after the loops.
unordered_flush(st, morsel, fails) ==
    [tables |-> st.tables,
     sent |-> IF st.out_len > 0 /\ ~fails
              THEN Append(st.sent, OutMorsel(Flatten(st.out_frames), morsel, "Probe"))
              ELSE st.sent,
     broke |-> st.out_len > 0 /\ fails,
     failed |-> IF st.out_len > 0 /\ fails THEN st.failed + 1 ELSE st.failed,
     after_fail |-> st.after_fail,
     limits |-> st.limits, limits_after_fail |-> st.limits_after_fail,
     produced |-> st.produced,
     emitted |-> IF st.out_len > 0 THEN Append(st.emitted, st.out_frames) ELSE st.emitted,
     len_ok |-> st.len_ok /\ st.out_len = FramesHeight(st.out_frames),
     closed |-> st.closed \/ (st.out_len > 0 /\ fails),
     probed |-> st.probed]

flush_fails(st, closes_at) == SendFails(st.closed, closes_at, st.nsends + 1)

unordered_end(st, morsel, closes_at) == unordered_flush(st, morsel, flush_fails(st, closes_at))

probe_unordered(n, tables, morsel, partition_idxs, closed, closes_at) ==
    unordered_end(unordered_loop(n, KeysOf(morsel.rows), morsel, partition_idxs, closes_at,
                                 [p |-> 1, offset |-> 0, tables |-> tables,
                                  out_frames |-> <<>>, out_len |-> 0, sent |-> <<>>,
                                  nsends |-> 0, closed |-> closed, probed |-> {},
                                  limits |-> {}, limits_after_fail |-> {},
                                  failed |-> 0,
                                  after_fail |-> FALSE, produced |-> <<>>,
                                  emitted |-> <<>>, len_ok |-> TRUE]),
                  morsel, closes_at)

\* One iteration of the receive loop of partition_and_probe.
probe_with(n, tables, morsel, partition_idxs, closed, closes_at) ==
    IF n.preserve_order_probe
    THEN probe_ordered(n, tables, morsel, partition_idxs, closed, closes_at)
    ELSE probe_unordered(n, tables, morsel, partition_idxs, closed, closes_at)

probe_morsel(n, tables, morsel, closed, closes_at) ==
    probe_with(n, tables, morsel,
               gen_partition_idxs(KeysOf(morsel.rows), ProbePartitioner(n),
                                  emit_unmatched_probe(n)),
               closed, closes_at)

(***************************************************************************)
(* EquiJoinNode::new and the initial state.                                *)
(***************************************************************************)
new_left_is_build(maintain_order, sample_limit) ==
    CASE maintain_order = "None" -> IF sample_limit = 0 THEN Some(TRUE) ELSE None
      [] maintain_order \in {"Left", "LeftRight"} -> Some(FALSE)
      [] OTHER -> Some(TRUE)

\* A variant of new_preserve_order_build that holds for Left and Right as
\* well.
new_preserve_order_build_always(maintain_order) == maintain_order # "None"

new_preserve_order_probe(maintain_order) == maintain_order # "None"

new_preserve_order_build(maintain_order) == maintain_order \in {"LeftRight", "RightLeft"}

\* EquiJoinNode::new
EquiJoinNode_new(a, sample_limit) ==
    LET left_is_build == new_left_is_build(a.maintain_order, sample_limit)
    IN [state |-> IF left_is_build # None THEN "Build" ELSE "Sample",
        left_is_build |-> left_is_build,
        preserve_order_build |-> new_preserve_order_build(a.maintain_order),
        preserve_order_probe |-> new_preserve_order_probe(a.maintain_order),
        num_pipelines |-> 0,
        table |-> IF left_is_build = None THEN None
                  ELSE Some(IF unwrap(left_is_build) THEN "left_key_schema"
                            ELSE "right_key_schema"),
        sample_state |-> SampleState_default,
        build_state |-> BuildState_default,
        probe_state |-> ProbeState_none,
        emit_state |-> EmitUnmatchedState_none,
        src_node |-> InMemorySourceNode_none]

UsizeMAX == 1000000

NoPhase ==
    [kind |-> "none",
     recv_ports |-> [i \in {0, 1} |-> FALSE],
     send_port |-> FALSE,
     final_len |-> [i \in {0, 1} |-> 0],
     running |-> [i \in {0, 1} |-> FALSE],
     stop |-> [i \in {0, 1} |-> FALSE],
     task_max_seq |-> <<>>,
     task_done |-> <<>>,
     reinsert_done |-> <<>>,
     send_failed |-> <<>>,
     closed |-> FALSE,
     emit_done |-> FALSE,
     emit_wait |-> FALSE]

\* The history: the states the last update_state passed through, whether
\* the output was cancelled (send[0] = Done was passed, or a send failed),
\* the (key, partition) pairs probed, the inputs as given, the length of
\* the output when send[0] = Done was first passed, the seqs of the morsels
\* the probe tasks received, whether the replay buffer was empty when the
\* last update_state reached its Probe step in Probe, the worker that
\* received each morsel of the Build phases as <<origin, worker>>, and the
\* active partition and the number of partitions that the last
\* update_state found at its EmitUnmatchedBuild step, if the node was in
\* EmitUnmatchedBuild there; and the sample lengths with which sampling
\* stopped; and whether a probe task, after a send of its own failed, went
\* on to another send, to another probe_subset, or to another input morsel;
\* and what the probe task did with the output frames of the last morsel;
\* and, for every morsel emit_unmatched sent, its partition, its ChunkIds
\* and whether the consume token of the morsel before was unreleased, with
\* the number of runs that a stop request ended (2 for more).
Hist0 ==
    [trail |-> <<>>, cancelled |-> FALSE, probed |-> {},
     inputs |-> [i \in {0, 1} |-> <<>>], done_out |-> None, probe_seqs |-> {},
     samples_consumed |-> TRUE, sunk_by |-> {}, emit_found |-> None,
     sampled |-> None,
     after_fail |-> [sends |-> FALSE, probes |-> FALSE, recvs |-> FALSE],
     last_probe |-> None,
     emitted |-> <<>>, emit_stops |-> 0]

JoinArgs ==
    [how : JoinTypes, maintain_order : MaintainOrders, nulls_equal : BOOLEAN]

InitNode(argset, limits, sizes, lefts, rights) ==
    /\ args \in argset
    /\ SAMPLE_LIMIT \in limits
    /\ ideal_morsel_size \in sizes
    /\ node = EquiJoinNode_new(args, SAMPLE_LIMIT)
    /\ recv = [i \in {0, 1} |-> "Blocked"]
    /\ send = "Blocked"
    /\ in_recv = [i \in {0, 1} |-> "Blocked"]
    /\ in_send = "Blocked"
    /\ \E l \in lefts, r \in rights :
          upstream = [i \in {0, 1} |-> MkInput(IF i = 0 THEN l ELSE r)]
    /\ phase = NoPhase
    /\ output = <<>>
    /\ pc = "new"
    /\ hist = [Hist0 EXCEPT !.inputs = upstream]

\* The initial states of the specifications that leave the columns out.
InitOn(argset, limits, sizes, lefts, rights) ==
    /\ InitNode(argset, limits, sizes, lefts, rights)
    /\ schemas = [left_input_schema |-> <<>>, right_input_schema |-> <<>>,
                  left_key_schema |-> <<>>, right_key_schema |-> <<>>]
    /\ frame = [stage |-> "none"]
    /\ stream = [stage |-> "none"]

\* The initial states on inputs of at most MaxMorsels morsels.
InitWith(argset, limits, sizes, lefts, rights) ==
    InitOn(argset, limits, sizes, lefts \cap Inputs, rights \cap Inputs)

\* ComputeNode::initialize
Initialize ==
    /\ pc = "new"
    /\ \E np \in 1..MaxPipelines : node' = [node EXCEPT !.num_pipelines = np]
    /\ pc' = "idle"
    /\ UNCHANGED <<stream, schemas, frame, args, SAMPLE_LIMIT, ideal_morsel_size, recv, send, in_recv, in_send,
                   upstream, phase, output, hist>>

(***************************************************************************)
(* The scheduler calling update_state.  The port states it passes are      *)
(* those of the neighbours: a port that was Done stays Done, and an input  *)
(* is Done only when its source has sent everything or the node has closed *)
(* the port.                                                               *)
(***************************************************************************)
EnvRecv ==
    {r \in [{0, 1} -> PortStates] :
        \A i \in {0, 1} :
            /\ in_recv[i] = "Done" => r[i] = "Done"
            /\ r[i] = "Done" => (upstream[i] = <<>> \/ recv[i] = "Done")}

EnvSend == {s \in PortStates : in_send = "Done" => s = "Done"}

\* The workers the sampled build morsels may be popped by.
AssignChoices(n, r) ==
    IF n.state = "Sample" /\ stop_sampling(n.sample_state, r)
    THEN [1..NumSampledBuild(n.sample_state) -> 1..n.num_pipelines]
    ELSE {<<>>}

\* What the EmitUnmatchedBuild step finds in node m.
emit_found_in(m) ==
    IF m.state = "EmitUnmatchedBuild"
    THEN Some([idx |-> m.emit_state.active_partition_idx,
               len |-> Len(m.emit_state.partitions)])
    ELSE None

\* The sample lengths, if the call on node n stops sampling.
sampled_in(n, r, s) ==
    IF n.state = "Sample" /\ s # "Done" /\ stop_sampling(n.sample_state, r)
    THEN Some([left_len |-> n.sample_state.left_len,
               right_len |-> n.sample_state.right_len,
               lc |-> norm_cardinality(n.sample_state.left, n.sample_state.left_len),
               rc |-> norm_cardinality(n.sample_state.right, n.sample_state.right_len)])
    ELSE hist.sampled

\* What the history keeps of a call that was passed s.
call_hist(trail, s, samples_consumed, emit_found, sampled) ==
    [hist EXCEPT !.trail = trail,
                 !.sampled = sampled,
                 !.emit_found = emit_found,
                 !.cancelled = @ \/ s = "Done",
                 !.done_out = IF s = "Done" /\ @ = None THEN Some(Len(output)) ELSE @,
                 !.samples_consumed = samples_consumed]

\* The call panics in finalize: the node is left as the Build step found
\* it.
UpdatePanics(c, r, s) ==
    /\ pc' = "panicked"
    /\ node' = c.n
    /\ hist' = call_hist(c.trail, s, TRUE, None, sampled_in(node, r, s))
    /\ in_recv' = r
    /\ in_send' = s
    /\ UNCHANGED <<recv, send>>

\* The call returns res; c is the call as it reached the Probe step.
UpdateReturns(c, res, r, s) ==
    /\ pc' = "updated"
    /\ node' = res.n
    /\ recv' = res.recv
    /\ send' = res.send
    /\ in_recv' = r
    /\ in_send' = s
    /\ hist' = call_hist(res.trail, s,
                         c.n.state = "Probe"
                            => is_empty(c.n.probe_state.sampled_probe_morsels),
                         emit_found_in(step_probe(c.n, r, <<>>)),
                         sampled_in(node, r, s))

UpdateState ==
    /\ pc \in {"idle", "updated"}
    /\ \E r \in EnvRecv, s \in EnvSend :
         \E assign \in AssignChoices(step_send_done(node, s), r) :
           \E c2 \in {update_to_build(node, r, s, assign)} :
             IF build_panics(c2.n, r)
             THEN UpdatePanics(c2, r, s)
             ELSE \E c3 \in {call_build(c2, r)} :
                    \E unmatched \in unmatched_choices(c3.n, r) :
                      \E res \in {update_from_probe(c3, r, s, unmatched)} :
                         UpdateReturns(c3, res, r, s)
    /\ UNCHANGED <<stream, schemas, frame, args, SAMPLE_LIMIT, ideal_morsel_size, upstream, phase, output>>

(***************************************************************************)
(* EquiJoinNode::spawn.  A port is handed to spawn when both ends of its   *)
(* pipe are Ready.                                                         *)
(***************************************************************************)
recv_port(i) == in_recv[i] = "Ready" /\ recv[i] = "Ready"
send_port == in_send = "Ready" /\ send = "Ready"

Workers == 1..node.num_pipelines

\* The Build arm: partitions_per_worker is resized to num_pipelines, and
\* every partition_and_sink task resizes its partitions when it starts.
spawn_build(n) ==
    LET ppw == n.build_state.partitions_per_worker
    IN [n EXCEPT !.build_state.partitions_per_worker =
          [w \in 1..n.num_pipelines |->
              resize_partitions(IF w <= Len(ppw) THEN ppw[w] ELSE <<>>,
                                BuildPartitioner(n))]]

Spawn ==
    /\ pc = "updated"
    /\ node.state \in {"Sample", "Build", "Probe", "EmitUnmatchedBuild",
                       "EmitUnmatchedBuildInOrder"}
    /\ recv_port(0) \/ recv_port(1) \/ send_port
    /\ pc' = "running"
    /\ node' = IF node.state = "Build" THEN spawn_build(node) ELSE node
    /\ phase' = [NoPhase EXCEPT
                   !.kind = node.state,
                   !.recv_ports = [i \in {0, 1} |-> recv_port(i)],
                   !.send_port = send_port,
                   !.running = [i \in {0, 1} |-> node.state = "Sample" /\ recv_port(i)],
                   !.final_len = [i \in {0, 1} |->
                                    IF recv_port(i) THEN UsizeMAX
                                    ELSE IF i = 0 THEN node.sample_state.left_len
                                    ELSE node.sample_state.right_len],
                   !.task_max_seq = [w \in Workers |-> 0],
                   !.task_done = [w \in Workers |-> FALSE],
                   !.reinsert_done = [w \in Workers |-> FALSE],
                   !.send_failed = [w \in Workers |-> FALSE]]
    /\ UNCHANGED <<stream, schemas, frame, args, SAMPLE_LIMIT, ideal_morsel_size, recv, send, in_recv, in_send,
                   upstream, output, hist>>

(***************************************************************************)
(* SampleState::sink, one task per input port that is open.                *)
(***************************************************************************)
saturating_mul(a, b) == Min2(a * b, UsizeMAX)

\* Whether the sink requests a stop once its side holds len rows.
sink_stops(len, other_final_len) ==
    \/ len >= SAMPLE_LIMIT
    \/ len >= saturating_mul(other_final_len, LOPSIDED_SAMPLE_FACTOR)

sink_push(ss, i, morsel) ==
    IF i = 0
    THEN [ss EXCEPT !.left = Append(@, morsel), !.left_len = @ + height(morsel.rows)]
    ELSE [ss EXCEPT !.right = Append(@, morsel), !.right_len = @ + height(morsel.rows)]

side_len(ss, i) == IF i = 0 THEN ss.left_len ELSE ss.right_len

\* One iteration of the receive loop of the sink of side i.
SampleSink(i) ==
    /\ pc = "running"
    /\ phase.kind = "Sample"
    /\ phase.running[i]
    /\ upstream[i] # <<>>
    /\ \E ss \in {sink_push(node.sample_state, i, Head(upstream[i]))} :
          /\ node' = [node EXCEPT !.sample_state = ss]
          /\ phase' = [phase EXCEPT !.stop[i] =
                          @ \/ sink_stops(side_len(ss, i), phase.final_len[1 - i])]
    /\ upstream' = [upstream EXCEPT ![i] = Tail(@)]
    /\ UNCHANGED <<stream, schemas, frame, args, SAMPLE_LIMIT, ideal_morsel_size, recv, send, in_recv, in_send,
                   output, pc, hist>>

\* The receiver of side i is closed: the sink publishes its final length.
SampleSinkEnd(i) ==
    /\ pc = "running"
    /\ phase.kind = "Sample"
    /\ phase.running[i]
    /\ phase' = [phase EXCEPT !.running[i] = FALSE,
                              !.final_len[i] = side_len(node.sample_state, i)]
    /\ UNCHANGED <<stream, schemas, frame, args, SAMPLE_LIMIT, ideal_morsel_size, node, recv, send, in_recv,
                   in_send, upstream, output, pc, hist>>

(***************************************************************************)
(* The Build phase: worker w receives the next build morsel.               *)
(***************************************************************************)
BuildSink(w) ==
    /\ pc = "running"
    /\ phase.kind = "Build"
    /\ upstream[build_idx(node)] # <<>>
    /\ node' = [node EXCEPT !.build_state.partitions_per_worker[w] =
                   sink_morsel(@, Head(upstream[build_idx(node)]), BuildPartitioner(node),
                               emit_unmatched_build(node))]
    /\ upstream' = [upstream EXCEPT ![build_idx(node)] = Tail(@)]
    /\ hist' = [hist EXCEPT !.sunk_by =
                   @ \cup {<<Head(upstream[build_idx(node)]).origin, w>>}]
    /\ UNCHANGED <<stream, schemas, frame, args, SAMPLE_LIMIT, ideal_morsel_size, recv, send, in_recv, in_send,
                   phase, output, pc>>

(***************************************************************************)
(* The Probe phase: the reinsert task of pipeline w forwards a morsel (a   *)
(* buffered one first, then those of the probe port with their seq offset  *)
(* by post_buffer_offset) and the probe task of pipeline w probes it.      *)
(***************************************************************************)
\* How many sends of one morsel the model lets succeed before the output
\* closes.
MaxClosesAt == 2

reinsert_has_next(n) ==
    \/ ~is_empty(n.probe_state.sampled_probe_morsels)
    \/ (phase.recv_ports[probe_idx(n)] /\ upstream[probe_idx(n)] # <<>>)

\* The morsel the reinsert task forwards next.
reinsert_next(n) ==
    IF ~is_empty(n.probe_state.sampled_probe_morsels)
    THEN Head(n.probe_state.sampled_probe_morsels.morsels)
    ELSE [Head(upstream[probe_idx(n)]) EXCEPT
             !.seq = @ + n.probe_state.sampled_probe_morsels.post_buffer_offset]

\* The buffer and the source after the reinsert task took its next morsel.
reinsert_pop_node(n) ==
    IF ~is_empty(n.probe_state.sampled_probe_morsels)
    THEN [n EXCEPT !.probe_state.sampled_probe_morsels.morsels = Tail(@)]
    ELSE n

reinsert_pop_upstream(n) ==
    IF ~is_empty(n.probe_state.sampled_probe_morsels) THEN upstream
    ELSE [upstream EXCEPT ![probe_idx(n)] = Tail(@)]

ProbeMorsel(w) ==
    /\ pc = "running"
    /\ phase.kind = "Probe"
    /\ ~phase.task_done[w]
    /\ reinsert_has_next(node)
    /\ \E closes_at \in 0..MaxClosesAt, morsel \in {reinsert_next(node)} :
         \E res \in {probe_morsel(node, node.probe_state.table_per_partition, morsel,
                                  phase.closed, closes_at)} :
            /\ node' = [reinsert_pop_node(node) EXCEPT
                           !.probe_state.table_per_partition = res.tables]
            /\ output' = output \o res.sent
            /\ phase' = [phase EXCEPT !.task_max_seq[w] = morsel.seq,
                                      !.task_done[w] = res.broke,
                                      !.send_failed[w] = @ \/ res.failed > 0,
                                      !.closed = res.closed]
            /\ hist' = [hist EXCEPT !.cancelled = @ \/ res.closed,
                                    !.probed = @ \cup res.probed,
                                    !.probe_seqs = @ \cup {morsel.seq},
                                    !.last_probe =
                                        Some([unordered |-> ~node.preserve_order_probe,
                                              failed |-> res.failed,
                                              produced |-> res.produced,
                                              emitted |-> res.emitted,
                                              limits |-> res.limits,
                                              limits_after_fail |-> res.limits_after_fail,
                                              len_ok |-> res.len_ok]),
                                    !.after_fail =
                                        [sends |-> @.sends \/ res.failed > 1,
                                         probes |-> @.probes \/ res.after_fail,
                                         recvs |-> @.recvs \/ phase.send_failed[w]]]
    /\ upstream' = reinsert_pop_upstream(node)
    /\ UNCHANGED <<stream, schemas, frame, args, SAMPLE_LIMIT, ideal_morsel_size, recv, send, in_recv, in_send, pc>>

\* The reinsert task of a pipeline whose probe task has left its loop: its
\* next send fails and the morsel it took is dropped.
ReinsertAfterBreak(w) ==
    /\ pc = "running"
    /\ phase.kind = "Probe"
    /\ phase.task_done[w]
    /\ ~phase.reinsert_done[w]
    /\ IF reinsert_has_next(node)
       THEN /\ node' = reinsert_pop_node(node)
            /\ upstream' = reinsert_pop_upstream(node)
       ELSE UNCHANGED <<node, upstream>>
    /\ phase' = [phase EXCEPT !.reinsert_done[w] = TRUE]
    /\ UNCHANGED <<stream, schemas, frame, args, SAMPLE_LIMIT, ideal_morsel_size, recv, send, in_recv, in_send,
                   output, pc, hist>>

(***************************************************************************)
(* EmitUnmatchedState::emit_unmatched.                                     *)
(***************************************************************************)
next_multiple_of(a, b) == ((a + b - 1) \div b) * b
div_ceil(a, b) == (a + b - 1) \div b

\* The morsel size for total_len unmatched keys at most.
morsel_size_for(total_len, morsel_count) == Max2(div_ceil(total_len, morsel_count), 1)

morsel_size_of(n, total_len) ==
    morsel_size_for(total_len,
                    next_multiple_of(Max2(total_len \div ideal_morsel_size, 1),
                                     n.num_pipelines))

emit_morsel_size(n) ==
    morsel_size_of(n, SumSeq([p \in 1..Len(n.emit_state.partitions) |->
                                 num_keys(n.emit_state.partitions[p].table)]))

\* The morsel of the unmatched build rows at the ChunkIds out.
unmatched_morsel(n, pt, out, seq) ==
    [seq |-> seq,
     df |-> hstack(n, take_chunked(pt.df, out), full_null(Len(out))),
     from |-> "EmitUnmatchedBuild", src |-> 0]

\* The send of the morsel made of the ChunkIds out.  fails: the send
\* fails and the task returns; otherwise the task waits for the consume
\* token of the morsel.
EmitSend(morsel, offset, out) ==
    /\ node' = [node EXCEPT !.emit_state.offset_in_active_p = offset,
                            !.emit_state.morsel_seq = @ + 1]
    /\ \E fails \in {phase.closed, TRUE} :
         /\ output' = IF fails THEN output ELSE Append(output, morsel)
         /\ phase' = [phase EXCEPT !.closed = @ \/ fails,
                                   !.emit_done = fails,
                                   !.emit_wait = ~fails]
         /\ hist' = [hist EXCEPT
                !.cancelled = @ \/ fails,
                !.emitted = IF fails THEN @
                            ELSE Append(@, [p |-> node.emit_state.active_partition_idx,
                                            out |-> out,
                                            unreleased |-> phase.emit_wait])]

\* One iteration of the inner loop for the active partition pt.
EmitFrom(es, pt, res) ==
    IF res.out = <<>>
    THEN /\ node' = [node EXCEPT !.emit_state.active_partition_idx = @ + 1,
                                 !.emit_state.offset_in_active_p = 0]
         /\ UNCHANGED <<phase, output, hist>>
    ELSE EmitSend(unmatched_morsel(node, pt, res.out, es.morsel_seq),
                  es.offset_in_active_p + res.consumed, res.out)

\* A variant of emit_may_go_on without wait_group.wait().
emit_never_waits == TRUE

\* wait_group.wait(): the task goes on once the consume token of the morsel
\* it sent is released.
emit_may_go_on == ~phase.emit_wait

\* One iteration of the inner loop (or the end of the outer loop).
EmitUnmatched ==
    /\ pc = "running"
    /\ phase.kind = "EmitUnmatchedBuild"
    /\ ~phase.emit_done
    /\ emit_may_go_on
    /\ IF node.emit_state.active_partition_idx >= Len(node.emit_state.partitions)
       THEN /\ phase' = [phase EXCEPT !.emit_done = TRUE]
            /\ UNCHANGED <<node, output, hist>>
       ELSE \E pt \in {node.emit_state.partitions[node.emit_state.active_partition_idx + 1]} :
              \E res \in {unmarked_keys(pt.table, node.emit_state.offset_in_active_p,
                                        emit_morsel_size(node), UnmarkedAcc0)} :
                 EmitFrom(node.emit_state, pt, res)
    /\ UNCHANGED <<stream, schemas, frame, args, SAMPLE_LIMIT, ideal_morsel_size, recv, send, in_recv, in_send,
                   upstream, pc>>

\* The consumer releases the consume token of the morsel; stop: a stop was
\* requested on its source token by then, and the task returns.
EmitConsumed ==
    /\ pc = "running"
    /\ phase.kind = "EmitUnmatchedBuild"
    /\ phase.emit_wait
    /\ \E stop \in BOOLEAN :
          /\ phase' = [phase EXCEPT !.emit_wait = FALSE, !.emit_done = @ \/ stop]
          /\ hist' = [hist EXCEPT !.emit_stops = IF stop THEN Min2(@ + 1, 2) ELSE @]
    /\ UNCHANGED <<stream, schemas, frame, args, SAMPLE_LIMIT, ideal_morsel_size, node, recv, send,
                   in_recv, in_send, upstream, output, pc>>

(***************************************************************************)
(* InMemorySourceNode::spawn: the frame is sent in morsels of consecutive  *)
(* rows with consecutive seqs.                                             *)
(***************************************************************************)
SrcNodeSend ==
    /\ pc = "running"
    /\ phase.kind = "EmitUnmatchedBuildInOrder"
    /\ ~phase.closed
    /\ LET src == node.src_node
           last == Min2(src.pos + ideal_morsel_size, Len(src.df))
       IN /\ src.pos < Len(src.df)
          /\ node' = [node EXCEPT !.src_node.pos = last, !.src_node.seq = @ + 1]
          /\ \E fails \in BOOLEAN :
               /\ output' = IF fails THEN output
                            ELSE Append(output,
                                        [seq |-> src.seq,
                                         df |-> SubSeq(src.df, src.pos + 1, last),
                                         from |-> "EmitUnmatchedBuildInOrder", src |-> 0])
               /\ phase' = [phase EXCEPT !.closed = fails]
               /\ hist' = [hist EXCEPT !.cancelled = @ \/ fails]
    /\ UNCHANGED <<stream, schemas, frame, args, SAMPLE_LIMIT, ideal_morsel_size, recv, send, in_recv, in_send,
                   upstream, pc>>

(***************************************************************************)
(* The end of a phase: every task of the spawn has returned.               *)
(***************************************************************************)
RECURSIVE MaxSeq(_)
MaxSeq(s) == IF s = <<>> THEN 0 ELSE Max2(Head(s), MaxSeq(Tail(s)))

\* A variant of join_probe_tasks that drops what the probe tasks return.
join_probe_tasks_dropped(n, task_max_seq) == n

\* The task that awaits the probe tasks:
\* *max_seq_sent = (*max_seq_sent).max(probe_task.await?)
join_probe_tasks(n, task_max_seq) ==
    [n EXCEPT !.probe_state.max_seq_sent = Max2(@, MaxSeq(task_max_seq))]

\* Whether the tasks of the phase can all have returned.
phase_can_end ==
    CASE phase.kind = "Sample" -> \A i \in {0, 1} : ~phase.running[i]
      [] phase.kind = "Probe" ->
            \A w \in Workers :
               IF phase.task_done[w] THEN phase.reinsert_done[w]
               ELSE is_empty(node.probe_state.sampled_probe_morsels)
      [] phase.kind = "EmitUnmatchedBuild" -> phase.emit_done
      [] OTHER -> TRUE

PhaseEnd ==
    /\ pc = "running"
    /\ phase_can_end
    /\ node' = IF phase.kind = "Probe" THEN join_probe_tasks(node, phase.task_max_seq)
               ELSE node
    /\ phase' = NoPhase
    /\ pc' = "idle"
    /\ UNCHANGED <<stream, schemas, frame, args, SAMPLE_LIMIT, ideal_morsel_size, recv, send, in_recv, in_send,
                   upstream, output, hist>>

Next ==
    \/ Initialize
    \/ UpdateState
    \/ Spawn
    \/ \E i \in {0, 1} : SampleSink(i)
    \/ \E i \in {0, 1} : SampleSinkEnd(i)
    \/ \E w \in Workers : BuildSink(w)
    \/ \E w \in Workers : ProbeMorsel(w)
    \/ \E w \in Workers : ReinsertAfterBreak(w)
    \/ EmitUnmatched
    \/ EmitConsumed
    \/ SrcNodeSend
    \/ PhaseEnd

(***************************************************************************)
(* The columns of the output: compute_payload_selector, select_payload and *)
(* postprocess_join.  A schema is a sequence of column names, a frame a    *)
(* sequence of columns [name, val] that holds one row.  frame.stage tells  *)
(* how far one output frame has come: "new", then "constructed" or         *)
(* "failed" (EquiJoinNode::new returned Err), then "joined" (the frame the *)
(* probe puts together), then "postprocessed" or "panicked".               *)
(***************************************************************************)
contains(schema, c) == \E j \in 1..Len(schema) : schema[j] = c

COALESCE_KEYCOL == "__POLARS_COALESCE_KEYCOL"

starts_with(name, prefix) ==
    Len(name) >= Len(prefix) /\ SubSeq(name, 1, Len(prefix)) = prefix

\* Whether the column j of this (the column i = j - 1 of enumerate) makes
\* compute_payload_selector bail with Duplicate.
selector_bails(this, other, this_key_schema, is_left, a, j) ==
    /\ ~(a.coalesce /\ contains(this_key_schema, this[j]))
    /\ ~(~contains(other, this[j]) \/ is_left)
    /\ contains(other, this[j] \o a.suffix)

\* The selector of the column j of this.
selector(this, other, this_key_schema, is_left, a, j) ==
    IF a.coalesce /\ contains(this_key_schema, this[j])
    THEN IF is_left # (a.how = "Right") THEN Some(this[j])
         ELSE IF a.how = "Full" THEN Some(COALESCE_KEYCOL \o ToString(j - 1))
         ELSE None
    ELSE IF ~contains(other, this[j]) \/ is_left THEN Some(this[j])
    ELSE Some(this[j] \o a.suffix)

Ok(v) == [ok |-> TRUE, v |-> v]
Err(e) == [ok |-> FALSE, err |-> e]

compute_payload_selector(this, other, this_key_schema, is_left, a) ==
    IF \E j \in 1..Len(this) : selector_bails(this, other, this_key_schema, is_left, a, j)
    THEN Err("Duplicate")
    ELSE Ok([j \in 1..Len(this) |-> selector(this, other, this_key_schema, is_left, a, j)])

\* select_payload: the columns of df that the selector keeps, renamed.
select_payload(df, sel) ==
    Flatten([j \in 1..Len(df) |->
                IF sel[j] = None THEN <<>>
                ELSE << [name |-> unwrap(sel[j]), val |-> df[j].val] >>])

\* DataFrame::column: the first column of that name, if any.
column(df, name) ==
    IF \E j \in 1..Len(df) : df[j].name = name
    THEN Some(df[CHOOSE j \in 1..Len(df) :
                    /\ df[j].name = name
                    /\ \A i \in 1..(j - 1) : df[i].name # name])
    ELSE None

\* coalesce_columns of two columns: the name of the first, and the first
\* value that is not null.
coalesce_columns(c, other) ==
    [name |-> c.name, val |-> IF c.val # NULL THEN c.val ELSE other.val]

RECURSIVE postprocess_from(_, _, _, _, _)
\* The filter_map of postprocess_join from the column j on, with key_idx
\* keys found so far; acc is what was collected.
postprocess_from(df, left_key_schema, j, key_idx, acc) ==
    IF j > Len(df) THEN Ok(acc)
    ELSE IF key_idx < Len(left_key_schema) /\ df[j].name = left_key_schema[key_idx + 1]
    THEN IF column(df, COALESCE_KEYCOL \o ToString(key_idx)) = None
         THEN Err("panic")
         ELSE postprocess_from(df, left_key_schema, j + 1, key_idx + 1,
                  Append(acc, coalesce_columns(df[j],
                      unwrap(column(df, COALESCE_KEYCOL \o ToString(key_idx))))))
    ELSE IF starts_with(df[j].name, COALESCE_KEYCOL)
    THEN postprocess_from(df, left_key_schema, j + 1, key_idx, acc)
    ELSE postprocess_from(df, left_key_schema, j + 1, key_idx, Append(acc, df[j]))

postprocess_join(df, a, left_key_schema) ==
    IF a.how = "Full" /\ a.coalesce
    THEN postprocess_from(df, left_key_schema, 1, 0, <<>>)
    ELSE Ok(df)

\* The payload selectors of EquiJoinNode::new.
NewFrame ==
    /\ frame.stage = "new"
    /\ \E l \in {compute_payload_selector(schemas.left_input_schema,
                     schemas.right_input_schema, schemas.left_key_schema, TRUE, args)},
          r \in {compute_payload_selector(schemas.right_input_schema,
                     schemas.left_input_schema, schemas.right_key_schema, FALSE, args)} :
          frame' = IF l.ok /\ r.ok
                   THEN [stage |-> "constructed", left_payload_select |-> l.v,
                         right_payload_select |-> r.v]
                   ELSE [stage |-> "failed", err |-> "Duplicate"]
    /\ UNCHANGED <<stream, schemas, args, SAMPLE_LIMIT, ideal_morsel_size, node, recv, send,
                   in_recv, in_send, upstream, phase, output, pc, hist>>

\* The place of the column c in the key schema, 0 if it is no key.
key_place(key_schema, c) ==
    IF contains(key_schema, c)
    THEN CHOOSE p \in 1..Len(key_schema) : key_schema[p] = c
    ELSE 0

\* One row of an input: the key at place p holds p, any other column j a
\* value of its own, and a side without a row holds nulls.
InputFrame(schema, key_schema, present, base) ==
    [j \in 1..Len(schema) |->
        [name |-> schema[j],
         val |-> IF ~present THEN NULL
                 ELSE IF contains(key_schema, schema[j])
                 THEN key_place(key_schema, schema[j])
                 ELSE base + j]]

\* The kinds of rows a join of this type puts out.
RowKinds(how) ==
    {"both"} \cup (IF how \in {"Left", "Full"} THEN {"left"} ELSE {})
             \cup (IF how \in {"Right", "Full"} THEN {"right"} ELSE {})

\* The probe puts a frame together: the build payload and the probe
\* payload, the columns of the left side first.
JoinFrame ==
    /\ frame.stage = "constructed"
    /\ \E kind \in RowKinds(args.how) :
          frame' = [stage |-> "joined",
                    kind |-> kind,
                    df |-> select_payload(InputFrame(schemas.left_input_schema,
                                              schemas.left_key_schema, kind # "right", 10),
                                          frame.left_payload_select)
                           \o select_payload(InputFrame(schemas.right_input_schema,
                                              schemas.right_key_schema, kind # "left", 20),
                                          frame.right_payload_select)]
    /\ UNCHANGED <<stream, schemas, args, SAMPLE_LIMIT, ideal_morsel_size, node, recv, send,
                   in_recv, in_send, upstream, phase, output, pc, hist>>

\* postprocess_join on the frame.
PostprocessFrame ==
    /\ frame.stage = "joined"
    /\ \E res \in {postprocess_join(frame.df, args, schemas.left_key_schema)} :
          frame' = IF res.ok
                   THEN [stage |-> "postprocessed", kind |-> frame.kind,
                         df |-> frame.df, out |-> res.v]
                   ELSE [stage |-> "panicked", kind |-> frame.kind, df |-> frame.df]
    /\ UNCHANGED <<stream, schemas, args, SAMPLE_LIMIT, ideal_morsel_size, node, recv, send,
                   in_recv, in_send, upstream, phase, output, pc, hist>>

NextFrame ==
    \/ NewFrame
    \/ JoinFrame
    \/ PostprocessFrame

(***************************************************************************)
(* BufferedStream::reinsert, task by task.  stream holds the buffer, and   *)
(* for the running call the position of each task, the morsel it has       *)
(* popped, the receiver it forwards from, what it has sent on its channel, *)
(* the consume tokens of its wait group that are not released, the shared  *)
(* source token, whether a send of the task has failed in this call, and   *)
(* the buffered morsels that were dropped with a failed send.              *)
(***************************************************************************)
\* The numbers of channels, the start offsets, the numbers of buffered
\* morsels, the numbers of morsels a receiver of the port delivers in one
\* call, and the calls of reinsert on one stream.
StreamChannels == {1, 2}
StartOffsets == {0, 2}
BufferedCounts == {0, 1, 2}
DownstreamCounts == {0, 1, 2}
ReinsertCalls == {1, 2}

\* n morsels as they are sampled, with seqs of their own.
StreamInput(n) == [j \in 1..n |-> [seq |-> 10 + 2 * j, origin |-> j]]

\* The k morsels that receiver w of the port delivers in a call: the port
\* numbers its morsels from 0 in every call, over np receivers.
port_morsels(w, k, np) ==
    [i \in 1..k |-> [seq |-> (w - 1) + np * (i - 1), origin |-> 0]]

\* A stream of np channels on which reinsert has not been called.
NewStream(morsels, start_offset, np) ==
    [stage |-> "buffered",
     input |-> morsels,
     start_offset |-> start_offset,
     num_pipelines |-> np,
     buffer |-> BufferedStream_new(morsels, start_offset),
     calls |-> 0,
     port |-> FALSE,
     task |-> [w \in 1..np |-> "done"],
     popped |-> [w \in 1..np |-> None],
     orig_recv |-> [w \in 1..np |-> <<>>],
     sent |-> [w \in 1..np |-> <<>>],
     outstanding |-> [w \in 1..np |-> 0],
     closed |-> [w \in 1..np |-> FALSE],
     failed |-> [w \in 1..np |-> FALSE],
     dropped |-> {},
     stop_requested |-> FALSE]

\* reinsert: one channel and one task per pipeline, a new source token.
Reinsert ==
    /\ stream.stage = "buffered"
    /\ stream.calls + 1 \in ReinsertCalls
    /\ \E port \in BOOLEAN :
         \E d \in [1..stream.num_pipelines -> IF port THEN DownstreamCounts ELSE {0}] :
            stream' = [stream EXCEPT
                         !.stage = "reinsert",
                         !.calls = @ + 1,
                         !.port = port,
                         !.task = [w \in 1..stream.num_pipelines |-> "loop"],
                         !.popped = [w \in 1..stream.num_pipelines |-> None],
                         !.orig_recv = [w \in 1..stream.num_pipelines |->
                                          port_morsels(w, d[w], stream.num_pipelines)],
                         !.outstanding = [w \in 1..stream.num_pipelines |-> 0],
                         !.closed = [w \in 1..stream.num_pipelines |-> FALSE],
                         !.failed = [w \in 1..stream.num_pipelines |-> FALSE],
                         !.stop_requested = FALSE]
    /\ UNCHANGED <<schemas, frame, args, SAMPLE_LIMIT, ideal_morsel_size, node, recv, send,
                   in_recv, in_send, upstream, phase, output, pc, hist>>

\* A variant of reinsert_waits that does not wait on the wait group.
reinsert_never_waits(w) == TRUE

\* wait_group.wait(): the task goes on once the consume tokens of its wait
\* group are released.
reinsert_waits(w) == stream.outstanding[w] = 0

\* A variant of reinsert_breaks with the stop check that the source has
\* commented out.
reinsert_breaks_on_stop(w) ==
    is_empty(stream.buffer) \/ stream.stop_requested

\* The loop over the buffer is left when pop finds it empty.
reinsert_breaks(w) == is_empty(stream.buffer)

\* A variant of TaskPop that leaves the morsel it takes in the queue.
TaskPop_peek(w) ==
    /\ stream.stage = "reinsert"
    /\ stream.task[w] = "loop"
    /\ reinsert_waits(w)
    /\ stream' = IF reinsert_breaks(w)
                 THEN [stream EXCEPT !.task[w] = IF stream.port THEN "forward" ELSE "done"]
                 ELSE [stream EXCEPT !.task[w] = "send",
                                     !.popped[w] = Some(Head(stream.buffer.morsels))]
    /\ UNCHANGED <<schemas, frame, args, SAMPLE_LIMIT, ideal_morsel_size, node, recv, send,
                   in_recv, in_send, upstream, phase, output, pc, hist>>

\* The top of the loop of task w: self.morsels.pop().
TaskPop(w) ==
    /\ stream.stage = "reinsert"
    /\ stream.task[w] = "loop"
    /\ reinsert_waits(w)
    /\ stream' = IF reinsert_breaks(w)
                 THEN [stream EXCEPT !.task[w] = IF stream.port THEN "forward" ELSE "done"]
                 ELSE [stream EXCEPT !.task[w] = "send",
                                     !.popped[w] = Some(Head(stream.buffer.morsels)),
                                     !.buffer.morsels = Tail(@)]
    /\ UNCHANGED <<schemas, frame, args, SAMPLE_LIMIT, ideal_morsel_size, node, recv, send,
                   in_recv, in_send, upstream, phase, output, pc, hist>>

\* What is kept of a morsel sent on a channel.
SentMorsel(morsel, seq, from, stopped) ==
    [seq |-> seq, orig_seq |-> morsel.seq, origin |-> morsel.origin, from |-> from,
     stopped |-> stopped, call |-> stream.calls]

\* Task w sends the morsel it popped, with the shared source token and a
\* token of its wait group; a failed send ends the task.
TaskSend(w) ==
    /\ stream.stage = "reinsert"
    /\ stream.task[w] = "send"
    /\ stream' = IF stream.closed[w]
                 THEN [stream EXCEPT !.task[w] = "done", !.popped[w] = None,
                                     !.failed[w] = TRUE,
                                     !.dropped = @ \cup {unwrap(stream.popped[w]).origin}]
                 ELSE [stream EXCEPT
                         !.task[w] = "loop",
                         !.popped[w] = None,
                         !.outstanding[w] = @ + 1,
                         !.sent[w] = Append(@, SentMorsel(unwrap(stream.popped[w]),
                                                          unwrap(stream.popped[w]).seq,
                                                          "buffer", FALSE))]
    /\ UNCHANGED <<schemas, frame, args, SAMPLE_LIMIT, ideal_morsel_size, node, recv, send,
                   in_recv, in_send, upstream, phase, output, pc, hist>>

\* A variant of forward_seq that keeps the seq of the port.
forward_seq_kept(morsel) == morsel.seq

\* morsel.seq().offset_by(self.post_buffer_offset)
forward_seq(morsel) == morsel.seq + stream.buffer.post_buffer_offset

\* One iteration of the loop over orig_recv of task w; the loop ends when
\* the receiver is closed or a send fails.
TaskForward(w) ==
    /\ stream.stage = "reinsert"
    /\ stream.task[w] = "forward"
    /\ stream' = IF stream.orig_recv[w] = <<>>
                 THEN [stream EXCEPT !.task[w] = "done"]
                 ELSE IF stream.closed[w]
                 THEN [stream EXCEPT !.task[w] = "done", !.orig_recv[w] = Tail(@),
                                     !.failed[w] = TRUE]
                 ELSE [stream EXCEPT
                         !.orig_recv[w] = Tail(@),
                         !.sent[w] = Append(@, SentMorsel(Head(stream.orig_recv[w]),
                                                          forward_seq(Head(stream.orig_recv[w])),
                                                          "port", stream.stop_requested))]
    /\ UNCHANGED <<schemas, frame, args, SAMPLE_LIMIT, ideal_morsel_size, node, recv, send,
                   in_recv, in_send, upstream, phase, output, pc, hist>>

\* The consumer of channel w releases a consume token.
ConsumeToken(w) ==
    /\ stream.stage = "reinsert"
    /\ stream.outstanding[w] > 0
    /\ stream' = [stream EXCEPT !.outstanding[w] = @ - 1]
    /\ UNCHANGED <<schemas, frame, args, SAMPLE_LIMIT, ideal_morsel_size, node, recv, send,
                   in_recv, in_send, upstream, phase, output, pc, hist>>

\* A consumer requests a stop on the source token of a buffered morsel it
\* received in this call, which is the shared token.
RequestStop ==
    /\ stream.stage = "reinsert"
    /\ ~stream.stop_requested
    /\ \E w \in 1..stream.num_pipelines :
          \E j \in 1..Len(stream.sent[w]) :
             stream.sent[w][j].call = stream.calls /\ stream.sent[w][j].from = "buffer"
    /\ stream' = [stream EXCEPT !.stop_requested = TRUE]
    /\ UNCHANGED <<schemas, frame, args, SAMPLE_LIMIT, ideal_morsel_size, node, recv, send,
                   in_recv, in_send, upstream, phase, output, pc, hist>>

\* The consumer of channel w drops its receiver.
CloseChannel(w) ==
    /\ stream.stage = "reinsert"
    /\ ~stream.closed[w]
    /\ stream.task[w] # "done"
    /\ stream' = [stream EXCEPT !.closed[w] = TRUE]
    /\ UNCHANGED <<schemas, frame, args, SAMPLE_LIMIT, ideal_morsel_size, node, recv, send,
                   in_recv, in_send, upstream, phase, output, pc, hist>>

\* All tasks of the call have returned.
ReinsertEnd ==
    /\ stream.stage = "reinsert"
    /\ \A w \in 1..stream.num_pipelines : stream.task[w] = "done"
    /\ stream' = [stream EXCEPT !.stage = "buffered"]
    /\ UNCHANGED <<schemas, frame, args, SAMPLE_LIMIT, ideal_morsel_size, node, recv, send,
                   in_recv, in_send, upstream, phase, output, pc, hist>>

NextStream ==
    \/ Reinsert
    \/ \E w \in 1..stream.num_pipelines : TaskPop(w)
    \/ \E w \in 1..stream.num_pipelines : TaskSend(w)
    \/ \E w \in 1..stream.num_pipelines : TaskForward(w)
    \/ \E w \in 1..stream.num_pipelines : ConsumeToken(w)
    \/ RequestStop
    \/ \E w \in 1..stream.num_pipelines : CloseChannel(w)
    \/ ReinsertEnd

(***************************************************************************)
(* The specifications.  Each draws the join arguments, SAMPLE_LIMIT, the   *)
(* ideal morsel size and the two inputs from small sets; SpecFrame draws   *)
(* the schemas of the two inputs and their keys.                           *)
(***************************************************************************)
ArgsWith(hows, orders, nulls) ==
    [how : hows, maintain_order : orders, nulls_equal : nulls]

\* Every join type and order on inputs without null keys: the node's states
\* and ports.
Init ==
    \/ InitWith(ArgsWith(JoinTypes, MaintainOrders, {FALSE}), SampleLimits, {2},
                {<< <<1, 2>> >>}, {<< <<1>>, <<1>> >>})
    \/ InitWith(ArgsWith(JoinTypes, MaintainOrders, {FALSE}), SampleLimits, {2},
                {<< <<1>>, <<1>> >>}, {<< <<1, 2>> >>})

Spec == Init /\ [][Next]_vars

\* The rows of the output: inputs with null keys, repeated keys, keys
\* without a match and empty sides, with either side building.
JoinLefts == {<<>>, << <<NULL, 1>> >>, << <<1>>, <<2>> >>}
JoinRights == {<<>>, << <<1>>, <<1>> >>, << <<1, NULL>> >>}

InitJoin ==
    \/ InitWith(ArgsWith(JoinTypes, {"None"}, {FALSE}), SampleLimits,
                IdealMorselSizes, JoinLefts, JoinRights)
    \/ InitWith(ArgsWith(JoinTypes, {"Left"}, {FALSE}), {3}, {2}, JoinLefts, JoinRights)
    \/ InitWith(ArgsWith({"Full"}, {"LeftRight"}, {FALSE, TRUE}), {3}, {2},
                JoinLefts, JoinRights)

SpecJoin == InitJoin /\ [][Next]_vars

\* The order of the output: the ordered modes on inputs whose rows of one
\* morsel fall into two partitions and whose keys repeat over two morsels.
OrderInputs == {<< <<1, 2>> >>, << <<1>>, <<1>> >>, << <<NULL>> >>}

InitOrder ==
    \/ InitWith(ArgsWith(JoinTypes, MaintainOrders \ {"None"}, {FALSE}), {3}, {2},
                OrderInputs, OrderInputs)
    \/ InitWith(ArgsWith({"Full"}, {"None"}, {FALSE}), {3}, {2},
                {<< <<1>> >>}, {<< <<1, 2>> >>})

SpecOrder == InitOrder /\ [][Next]_vars

\* The choice of the build side: samples of which one side is ten or
\* eleven times the other, below a SAMPLE_LIMIT of 12 rows, a full join
\* that is not sampled, and samples that reach a SAMPLE_LIMIT of 2 rows.
Tall(n) == [i \in 1..n |-> 1 + (i % 2)]
SampleInputs == {<<>>, << <<1>> >>, << Tall(10) >>, << Tall(11) >>}

\* Samples with one and two keys, of which those of two rows, in one
\* morsel or in two, reach a SAMPLE_LIMIT of 2 rows.
SaturatingInputs == {<< <<1>> >>, << <<1, 2>> >>, << <<1, 1>> >>, << <<1>>, <<1>> >>}

InitSample ==
    \/ InitOn(ArgsWith({"Inner"}, {"None"}, {FALSE}), {12}, {2},
              SampleInputs, {<<>>, << <<1>> >>})
    \/ InitOn(ArgsWith({"Inner"}, {"None"}, {FALSE}), {12}, {2},
              {<<>>, << <<1>> >>}, SampleInputs)
    \/ InitOn(ArgsWith({"Full"}, {"None", "LeftRight"}, {FALSE}), {0, 12}, {2},
              {<< <<2>> >>}, {<< <<1, 1>> >>})
    \/ InitOn(ArgsWith({"Inner"}, {"None"}, {FALSE}), {2}, {2},
              SaturatingInputs, SaturatingInputs)

SpecSample == InitSample /\ [][Next]_vars

\* The columns of the output: every join type with and without coalesce,
\* on schemas whose keys stand first or not, share their names or not, and
\* of which one side holds a column that ends in the suffix.
ColumnOrders(S) ==
    {f \in [1..Cardinality(S) -> S] : \A i, j \in 1..Cardinality(S) : f[i] = f[j] => i = j}

LeftSchemas ==
    UNION {ColumnOrders(S) : S \in {{"k", "v"}, {"k", "j", "v"}, {"k", "v", "v_right"}}}
RightSchemas ==
    UNION {ColumnOrders(S) : S \in {{"k", "w"}, {"k", "j", "w"}, {"k", "v", "v_right"},
                                    {"x", "v"}}}

\* The key schemas over the columns of a schema: one or two of k, j, x.
KeySchemas(schema) ==
    UNION {ColumnOrders(S) : S \in SUBSET ({"k", "j", "x"} \cap Range(schema)) \ {{}}}

InitFrame ==
    /\ InitNode([how : JoinTypes, maintain_order : {"None"}, nulls_equal : {FALSE},
                 coalesce : BOOLEAN, suffix : {"_right"}],
                {0}, {2}, {<<>>}, {<<>>})
    /\ \E l \in LeftSchemas, r \in RightSchemas :
          \E lk \in KeySchemas(l), rk \in KeySchemas(r) :
             /\ Len(lk) = Len(rk)
             /\ schemas = [left_input_schema |-> l, right_input_schema |-> r,
                           left_key_schema |-> lk, right_key_schema |-> rk]
    /\ frame = [stage |-> "new"]
    /\ stream = [stage |-> "none"]

SpecFrame == InitFrame /\ [][NextFrame]_vars

\* BufferedStream::new and reinsert: streams of up to two morsels, with
\* start offsets 0 and 2, on one and two channels, in up to two calls of
\* reinsert with and without a port.
InitStream ==
    /\ InitNode(ArgsWith({"Inner"}, {"None"}, {FALSE}), {0}, {2}, {<<>>}, {<<>>})
    /\ schemas = [left_input_schema |-> <<>>, right_input_schema |-> <<>>,
                  left_key_schema |-> <<>>, right_key_schema |-> <<>>]
    /\ frame = [stage |-> "none"]
    /\ \E n \in BufferedCounts, s \in StartOffsets, np \in StreamChannels :
          stream = NewStream(StreamInput(n), s, np)

SpecStream == InitStream /\ [][NextStream]_vars

(***************************************************************************)
(* What the properties speak of.                                           *)
(***************************************************************************)
\* The rows sent to the output, in order.
OutRows == Flatten([j \in 1..Len(output) |-> output[j].df])

\* The rows of input i as given.
InputRows(i) == Flatten([j \in 1..Len(hist.inputs[i]) |-> hist.inputs[i][j].rows])
LeftRows == Range(InputRows(0))
RightRows == Range(InputRows(1))

\* The node is Done and nothing cancelled the output.
Finished == pc = "updated" /\ node.state = "Done" /\ ~hist.cancelled

CountKey(i, k) == Cardinality({j \in 1..Len(InputRows(i)) : InputRows(i)[j].key = k})

RECURSIVE SumProducts(_)
\* The sum over the keys of K of count_L(k) * count_R(k).
SumProducts(K) ==
    IF K = {} THEN 0
    ELSE LET k == CHOOSE x \in K : TRUE
         IN CountKey(0, k) * CountKey(1, k) + SumProducts(K \ {k})

\* The rows of the inner join, and the rows of a side without a match
\* (a null key matches nothing unless nulls are equal).
Matches(a, b) == a.key = b.key /\ ~is_null(a.key)
InnerRows == {[l |-> a, r |-> b] : <<a, b>> \in {x \in LeftRows \X RightRows : Matches(x[1], x[2])}}
UnmatchedLeft == {[l |-> a, r |-> NoRow] : a \in {x \in LeftRows : \A b \in RightRows : ~Matches(x, b)}}
UnmatchedRight == {[l |-> NoRow, r |-> b] : b \in {x \in RightRows : \A a \in LeftRows : ~Matches(a, x)}}

\* The sequence s lists every element of the set S once and nothing else.
ExactlyOnce(s, S) == Range(s) = S /\ Len(s) = Cardinality(S)

\* The state a trail moves to from state st, if it leaves st.
LeavesTo(trail, st, to) ==
    \E j \in 1..(Len(trail) - 1) : trail[j] = st /\ trail[j + 1] = to
Leaves(trail, st) == \E j \in 1..(Len(trail) - 1) : trail[j] = st

MaxOf(S) == CHOOSE x \in S : \A y \in S : y <= x

AllDone == send = "Done" /\ recv[0] = "Done" /\ recv[1] = "Done"

(***************************************************************************)
(* C1.                                                                     *)
(***************************************************************************)
\* C1: once update_state has been called with send[0] = Done, whatever
\* the state it was called in, the node is Done when the call returns and
\* send[0], recv[0] and recv[1] are Done; the call moves straight to Done
\* (no finalization) and the output never grows afterwards, nor is
\* anything spawned.
C1_SendDoneIsFinal ==
    in_send = "Done" =>
        /\ pc = "updated"
        /\ node.state = "Done"
        /\ AllDone
        /\ hist.trail[Len(hist.trail)] = "Done"
        /\ Len(hist.trail) <= 2
        /\ node.probe_state = ProbeState_none
        /\ node.emit_state = EmitUnmatchedState_none
        /\ hist.done_out = Some(Len(output))

\* update_state was called with send[0] = Done in Probe, after output.
C1_Witness ==
    /\ in_send = "Done"
    /\ hist.trail = <<"Probe", "Done">>
    /\ Len(output) > 0

(***************************************************************************)
(* C2.                                                                     *)
(***************************************************************************)
\* C2: for how = Inner with nulls_equal = false, when the node is Done and
\* the output was never cancelled, the number of rows emitted is the sum
\* over the non-null keys k of count_L(k) * count_R(k).
C2_InnerCardinality ==
    (args.how = "Inner" /\ ~args.nulls_equal /\ Finished)
        => Len(OutRows) = SumProducts(KeyDomain \ {NULL})

\* An inner join is Done with two rows out, rows with a null key in its
\* inputs, and the build side chosen by sampling.
C2_Witness ==
    /\ args.how = "Inner" /\ ~args.nulls_equal /\ Finished
    /\ Len(OutRows) = 2
    /\ \E a \in LeftRows \cup RightRows : a.key = NULL
    /\ args.maintain_order = "None" /\ SAMPLE_LIMIT > 0

(***************************************************************************)
(* C3.                                                                     *)
(***************************************************************************)
\* The rows an outer join has to emit.
ExpectedRows ==
    InnerRows
      \cup (IF args.how \in {"Left", "Full"} THEN UnmatchedLeft ELSE {})
      \cup (IF args.how \in {"Right", "Full"} THEN UnmatchedRight ELSE {})

\* C3: for how in {Left, Right, Full}, when the node is Done and the
\* output was never cancelled, the output holds the rows of the inner join
\* and each row of a preserved side that matched nothing exactly once,
\* with nulls for the other side.
C3_OuterRows ==
    (args.how \in {"Left", "Right", "Full"} /\ Finished)
        => ExactlyOnce(OutRows, ExpectedRows)

\* An outer join is Done with unmatched rows of both kinds in its output:
\* of the probe side and of the build side.
C3_Witness ==
    /\ args.how = "Full" /\ Finished
    /\ ExactlyOnce(OutRows, ExpectedRows)
    /\ \E j \in 1..Len(output) : output[j].from = "Probe"
                                 /\ \E x \in Range(output[j].df) : x.l = NoRow \/ x.r = NoRow
    /\ \E j \in 1..Len(output) : output[j].from = "EmitUnmatchedBuild"

(***************************************************************************)
(* C4.                                                                     *)
(***************************************************************************)
\* The build side is decided and its input has no rows.
BuildSideEmpty ==
    /\ pc # "new"
    /\ node.left_is_build # None
    /\ InputRows(build_idx(node)) = <<>>

\* The probe rows, each with nulls for the build side.
ProbeRowsWithNulls ==
    IF unwrap(node.left_is_build)
    THEN {[l |-> NoRow, r |-> b] : b \in RightRows}
    ELSE {[l |-> a, r |-> NoRow] : a \in LeftRows}

\* C4: when the build side delivers no rows and emit_unmatched_probe()
\* holds, the node emits every probe row exactly once with nulls for the
\* build side: update_state does not fail, and once the node is Done with
\* the output never cancelled the output is these rows.
C4_EmptyBuild ==
    (BuildSideEmpty /\ emit_unmatched_probe(node))
        => /\ pc # "panicked"
           /\ Finished => ExactlyOnce(OutRows, ProbeRowsWithNulls)

\* The same for a build side that sampling chose.
C4_EmptyBuildSampled ==
    (BuildSideEmpty /\ emit_unmatched_probe(node) /\ args.maintain_order = "None"
       /\ SAMPLE_LIMIT > 0 /\ Finished)
        => ExactlyOnce(OutRows, ProbeRowsWithNulls)

(***************************************************************************)
(* C5.                                                                     *)
(***************************************************************************)
\* The side of a joined row that was probed, and the side that was built.
ProbeSide(x) == IF unwrap(node.left_is_build) THEN x.r ELSE x.l
BuildSide(x) == IF unwrap(node.left_is_build) THEN x.l ELSE x.r

RowLess(a, b) == a.m < b.m \/ (a.m = b.m /\ a.i < b.i)

\* The rows of df follow the order of the probe rows; the rows of one probe
\* row are then contiguous.
FollowsProbeOrder(df) ==
    \A j \in 1..(Len(df) - 1) : ProbeSide(df[j]).i <= ProbeSide(df[j + 1]).i

\* Within the rows of one probe row, the build rows ascend by Less.
GroupsAscendBy(df, Less(_, _)) ==
    \A j \in 1..(Len(df) - 1) :
        ProbeSide(df[j]) = ProbeSide(df[j + 1]) => Less(BuildSide(df[j]), BuildSide(df[j + 1]))

\* The worker that received the build morsel of a row.
WorkerOf(a) == CHOOSE w \in 1..MaxPipelines + 1 : <<a.m, w>> \in hist.sunk_by

\* The order in which finalize inserts the build rows without
\* preserve_order_build: worker by worker, each worker's morsels as they
\* arrived.
InsertedBefore(a, b) ==
    WorkerOf(a) < WorkerOf(b) \/ (WorkerOf(a) = WorkerOf(b) /\ RowLess(a, b))

ProbeOutputs == {j \in 1..Len(output) : output[j].from = "Probe"}

\* C5 as stated: with maintain_order = Left (or Right), the output rows of
\* every probe morsel follow the probe row order, and within the rows of
\* one probe row the build rows are in ingestion order: ascending morsel
\* seq, then row position.
C5_IngestionOrder ==
    args.maintain_order \in {"Left", "Right"} =>
        \A j \in ProbeOutputs :
            /\ FollowsProbeOrder(output[j].df)
            /\ GroupsAscendBy(output[j].df, RowLess)

\* C5, amended: with maintain_order = Left (or Right), the output rows of
\* every probe morsel follow the probe row order with the rows of one
\* probe row contiguous, and within the rows of one probe row the build
\* rows are in the order finalize inserted them: by the worker that
\* received their morsel, then by morsel seq, then by row position.  That
\* is the ingestion order when there is one pipeline.
C5_InsertionOrder ==
    args.maintain_order \in {"Left", "Right"} =>
        \A j \in ProbeOutputs :
            /\ FollowsProbeOrder(output[j].df)
            /\ GroupsAscendBy(output[j].df, InsertedBefore)
            /\ node.num_pipelines = 1 => GroupsAscendBy(output[j].df, RowLess)

\* A probe row was joined with two build rows of different morsels, and
\* another probe row of the morsel was output too.
C5_Witness ==
    /\ args.maintain_order \in {"Left", "Right"}
    /\ \E j \in ProbeOutputs :
         /\ \E a, b \in 1..Len(output[j].df) :
               /\ a < b
               /\ ProbeSide(output[j].df[a]) = ProbeSide(output[j].df[b])
               /\ BuildSide(output[j].df[a]).m # BuildSide(output[j].df[b]).m
         /\ \E a, b \in 1..Len(output[j].df) :
               ProbeSide(output[j].df[a]) # ProbeSide(output[j].df[b])

(***************************************************************************)
(* C6.                                                                     *)
(***************************************************************************)
\* C6: with maintain_order = LeftRight or RightLeft, the frame built by
\* ordered_unmatched lists the unmatched build rows in their input order:
\* ascending morsel seq and, within a morsel, ascending row position.
C6_UnmatchedInInputOrder ==
    (args.maintain_order \in {"LeftRight", "RightLeft"}
       /\ node.state = "EmitUnmatchedBuildInOrder")
        => \A j \in 1..(Len(node.src_node.df) - 1) :
              RowLess(BuildSide(node.src_node.df[j]), BuildSide(node.src_node.df[j + 1]))

(***************************************************************************)
(* C7.                                                                     *)
(***************************************************************************)
UnmatchedOutputs == {j \in 1..Len(output) : output[j].from # "Probe"}

\* The largest seq a probe task received, or the default seq.
MaxProbeSeq == MaxOf(hist.probe_seqs \cup {0})

\* C7: every morsel emitted in EmitUnmatchedBuild or
\* EmitUnmatchedBuildInOrder has a seq above the seq of every morsel the
\* probe tasks received (and so of every morsel sent during Probe); the
\* seqs of the unmatched morsels strictly increase; and the state that
\* emits them is entered with the next seq set to max_seq_sent + 1, where
\* max_seq_sent is the maximum of the seqs received by all probe tasks in
\* all Probe phases.
C7_UnmatchedSeqsAfterProbe ==
    /\ \A j \in UnmatchedOutputs :
          /\ output[j].seq > MaxProbeSeq
          /\ \A k \in ProbeOutputs : output[j].seq > output[k].seq
          /\ \A k \in UnmatchedOutputs : k < j => output[k].seq < output[j].seq
    /\ node.state = "Probe" /\ pc \in {"idle", "updated"}
          => node.probe_state.max_seq_sent = MaxProbeSeq
    /\ (pc = "updated" /\ LeavesTo(hist.trail, "Probe", "EmitUnmatchedBuild")
          /\ node.state = "EmitUnmatchedBuild")
          => node.emit_state.morsel_seq = MaxProbeSeq + 1
    /\ (pc = "updated" /\ LeavesTo(hist.trail, "Probe", "EmitUnmatchedBuildInOrder")
          /\ node.state = "EmitUnmatchedBuildInOrder")
          => node.src_node.seq = MaxProbeSeq + 1

\* An unmatched morsel was emitted after probe tasks had received morsels
\* with different seqs.
C7_Witness ==
    /\ UnmatchedOutputs # {}
    /\ Cardinality(hist.probe_seqs) >= 2
    /\ ProbeOutputs # {}

(***************************************************************************)
(* C8.                                                                     *)
(***************************************************************************)
\* The partition of a key under a partitioner with num_pipelines
\* partitions.
PartitionOf(k) ==
    IF is_null(k) THEN null_partition ELSE hash_to_partition(k, node.num_pipelines)

KeysOfPartition(bp) == UNION {Range(bp.hash_keys[f]) : f \in 1..Len(bp.hash_keys)}
KeysOfTable(pt) == UNION {Range(pt.table.chunks[c].keys) : c \in 1..Len(pt.table.chunks)}

\* C8: every probe row is probed only against the table of the partition
\* of its key, and every build row is in the partition of its key, whether
\* it was sunk from the sample or in a Build phase: equal keys never land in
\* different partitions on the two sides.
C8_PartitionDeterminism ==
    /\ \A x \in hist.probed : x.p = PartitionOf(x.key)
    /\ \A w \in 1..Len(node.build_state.partitions_per_worker) :
          \A p \in 1..Len(node.build_state.partitions_per_worker[w]) :
             \A k \in KeysOfPartition(node.build_state.partitions_per_worker[w][p]) :
                p = PartitionOf(k)
    /\ \A p \in 1..Len(node.probe_state.table_per_partition) :
          \A k \in KeysOfTable(node.probe_state.table_per_partition[p]) : p = PartitionOf(k)
    /\ \A p \in 1..Len(node.emit_state.partitions) :
          \A k \in KeysOfTable(node.emit_state.partitions[p]) : p = PartitionOf(k)

\* With two pipelines, keys of both partitions were probed against tables
\* that were pre-populated from the sample.
C8_Witness ==
    /\ node.num_pipelines = 2
    /\ {x.p : x \in hist.probed} = {1, 2}
    /\ args.maintain_order = "None" /\ SAMPLE_LIMIT > 0
    /\ hist.sunk_by = {}
    /\ \E x \in Range(OutRows) : x.l # NoRow /\ x.r # NoRow

(***************************************************************************)
(* C9.                                                                     *)
(***************************************************************************)
\* C9: a node constructed with maintain_order = None and SAMPLE_LIMIT > 0
\* starts in Sample with the build side undecided; with SAMPLE_LIMIT = 0 it
\* starts in Build with left as build side and is never in Sample; Left and
\* LeftRight start in Build with right as build side, Right and RightLeft
\* in Build with left as build side; preserve_order_probe holds exactly
\* when maintain_order is not None and preserve_order_build exactly for
\* LeftRight and RightLeft.
C9_Construction ==
    /\ pc = "new" =>
         CASE args.maintain_order = "None" /\ SAMPLE_LIMIT > 0 ->
                node.state = "Sample" /\ node.left_is_build = None
           [] args.maintain_order = "None" /\ SAMPLE_LIMIT = 0 ->
                node.state = "Build" /\ node.left_is_build = Some(TRUE)
           [] args.maintain_order \in {"Left", "LeftRight"} ->
                node.state = "Build" /\ node.left_is_build = Some(FALSE)
           [] args.maintain_order \in {"Right", "RightLeft"} ->
                node.state = "Build" /\ node.left_is_build = Some(TRUE)
    /\ (args.maintain_order = "None" /\ SAMPLE_LIMIT = 0) =>
         /\ node.state # "Sample"
         /\ node.left_is_build = Some(TRUE)
         /\ \A j \in 1..Len(hist.trail) : hist.trail[j] # "Sample"
    /\ node.preserve_order_probe <=> args.maintain_order # "None"
    /\ node.preserve_order_build <=> args.maintain_order \in {"LeftRight", "RightLeft"}

\* A node constructed with SAMPLE_LIMIT = 0 is Done, all its input joined.
C9_Witness ==
    /\ args.maintain_order = "None" /\ SAMPLE_LIMIT = 0
    /\ Finished
    /\ OutRows # <<>>

(***************************************************************************)
(* C10.                                                                    *)
(***************************************************************************)
\* emit_unmatched_build() as the join type and the build side give it.
UnmatchedBuildWanted ==
    IF node.left_is_build = Some(TRUE)
    THEN args.how \in {"Left", "Full"}
    ELSE args.how \in {"Right", "Full"}

\* C10: an update_state call that was not passed send[0] = Done leaves
\* Probe only if it was passed recv[probe] = Done and found the replay
\* buffer empty; it then moves to EmitUnmatchedBuildInOrder if
\* emit_unmatched_build() and preserve_order_build, to EmitUnmatchedBuild
\* if emit_unmatched_build() and not preserve_order_build, and to Done
\* otherwise; and a call that finds this in Probe does leave it.
C10_LeavingProbe ==
    (pc = "updated" /\ in_send # "Done") =>
        /\ Leaves(hist.trail, "Probe") =>
              /\ in_recv[probe_idx(node)] = "Done"
              /\ hist.samples_consumed
              /\ LeavesTo(hist.trail, "Probe",
                          IF UnmatchedBuildWanted
                          THEN IF node.preserve_order_build
                               THEN "EmitUnmatchedBuildInOrder"
                               ELSE "EmitUnmatchedBuild"
                          ELSE "Done")
        /\ node.state = "Probe" =>
              ~(in_recv[probe_idx(node)] = "Done"
                  /\ is_empty(node.probe_state.sampled_probe_morsels))

\* A call left Probe for EmitUnmatchedBuild with left as the build side.
C10_Witness ==
    /\ pc = "updated" /\ in_send # "Done"
    /\ LeavesTo(hist.trail, "Probe", "EmitUnmatchedBuild")
    /\ node.left_is_build = Some(TRUE)
    /\ node.state = "EmitUnmatchedBuild"

(***************************************************************************)
(* C11.                                                                    *)
(***************************************************************************)
\* C11 as stated: whenever update_state returns with the node in Build,
\* send[0] is Blocked, recv[build] is Ready and recv[probe] is Blocked.
C11_BuildPorts ==
    (pc = "updated" /\ node.state = "Build") =>
        /\ send = "Blocked"
        /\ recv[build_idx(node)] = "Ready"
        /\ recv[probe_idx(node)] = "Blocked"

\* C11, amended: whenever update_state returns with the node in Build,
\* send[0] is Blocked, recv[build] is Ready, and recv[probe] is Blocked
\* unless the call was passed recv[probe] = Done, which stays Done; a Build
\* phase is spawned without the probe port and without the send port, and
\* the probe input keeps every morsel it had.
C11_BuildPortsOrDone ==
    /\ (pc = "updated" /\ node.state = "Build") =>
          /\ send = "Blocked"
          /\ recv[build_idx(node)] = "Ready"
          /\ recv[probe_idx(node)] =
                (IF in_recv[probe_idx(node)] = "Done" THEN "Done" ELSE "Blocked")
    /\ (pc = "running" /\ phase.kind = "Build") =>
          /\ ~phase.recv_ports[probe_idx(node)]
          /\ ~phase.send_port
    /\ (node.state = "Build" /\ (args.maintain_order # "None" \/ SAMPLE_LIMIT = 0)) =>
          upstream[probe_idx(node)] = hist.inputs[probe_idx(node)]

\* A Build phase has received a build morsel, and update_state returned in
\* Build after it was passed recv[probe] = Done.
C11_Witness ==
    /\ pc = "updated" /\ node.state = "Build"
    /\ in_recv[probe_idx(node)] = "Done"
    /\ hist.sunk_by # {}

(***************************************************************************)
(* C12.                                                                    *)
(***************************************************************************)
\* The last update_state was called in Build and was not passed
\* send[0] = Done.
CalledInBuild ==
    /\ pc \in {"updated", "panicked"}
    /\ hist.trail # <<>>
    /\ hist.trail[1] = "Build"
    /\ in_send # "Done"

\* C12: an update_state called in Build with recv[build] = Done and
\* send[0] not Done returns with the build state finalized and the node in
\* Probe or a later state; a call in Build with recv[build] not Done and
\* send[0] not Done returns with the node in Build.
C12_BuildFinalizes ==
    CalledInBuild =>
        IF in_recv[build_idx(node)] = "Done"
        THEN /\ pc = "updated"
             /\ Len(hist.trail) >= 2 /\ hist.trail[2] = "Probe"
             /\ node.state \in {"Probe", "EmitUnmatchedBuild",
                                "EmitUnmatchedBuildInOrder", "Done"}
             /\ node.build_state = BuildState_default
        ELSE /\ pc = "updated"
             /\ node.state = "Build"
             /\ hist.trail = <<"Build">>

\* A call in Build with recv[build] = Done finalized a build state that
\* holds rows, and the node is in Probe.
C12_Witness ==
    /\ CalledInBuild /\ pc = "updated"
    /\ in_recv[build_idx(node)] = "Done"
    /\ node.state = "Probe"
    /\ \E p \in 1..Len(node.probe_state.table_per_partition) :
          node.probe_state.table_per_partition[p].df # <<>>

(***************************************************************************)
(* C13.                                                                    *)
(***************************************************************************)
\* update_state returned with the node in Probe.
ReturnedInProbe == pc = "updated" /\ node.state = "Probe"

ReplayBufferEmpty == is_empty(node.probe_state.sampled_probe_morsels)

\* C13 as stated: while the node is in Probe and the replay buffer is not
\* empty, update_state sets send[0] to the state recv[probe] had on entry
\* and recv[build] to Done.
C13_PassThrough ==
    (ReturnedInProbe /\ ~ReplayBufferEmpty) =>
        /\ send = in_recv[probe_idx(node)]
        /\ recv[build_idx(node)] = "Done"

\* C13, amended: whenever update_state returns with the node in Probe,
\* recv[build] is Done; if recv[probe] was not Done on entry, send[0] and
\* recv[probe] have swapped their states on entry, whether the replay
\* buffer is empty or not; if recv[probe] was Done on entry, the replay
\* buffer is not empty, send[0] is Ready and recv[probe] stays Done.
C13_ProbePorts ==
    ReturnedInProbe =>
        /\ recv[build_idx(node)] = "Done"
        /\ IF in_recv[probe_idx(node)] # "Done"
           THEN /\ send = in_recv[probe_idx(node)]
                /\ recv[probe_idx(node)] = in_send
           ELSE /\ ~ReplayBufferEmpty
                /\ send = "Ready"
                /\ recv[probe_idx(node)] = "Done"

\* update_state returned in Probe with a replay buffer that is not empty,
\* and passed the state of recv[probe], which differs from that of
\* send[0], through.
C13_Witness ==
    /\ ReturnedInProbe /\ ~ReplayBufferEmpty
    /\ in_recv[probe_idx(node)] # "Done"
    /\ in_recv[probe_idx(node)] # in_send
    /\ send = in_recv[probe_idx(node)]

(***************************************************************************)
(* C14.                                                                    *)
(***************************************************************************)
\* The partitions are exhausted in what the EmitUnmatchedBuild step of the
\* last update_state found.
EmitExhausted == unwrap(hist.emit_found).idx >= unwrap(hist.emit_found).len

\* C14: whenever update_state returns with the node in EmitUnmatchedBuild,
\* send[0] is Ready and both recv ports are Done; a call that was not
\* passed send[0] = Done and reaches its EmitUnmatchedBuild step in
\* EmitUnmatchedBuild moves the node to Done exactly when
\* active_partition_idx has reached the number of partitions, also in the
\* call that entered the state and when there are no partitions; a call
\* that was passed send[0] = Done moves it to Done.
C14_EmitUnmatchedPorts ==
    /\ (pc = "updated" /\ node.state = "EmitUnmatchedBuild") =>
          /\ send = "Ready"
          /\ recv[0] = "Done" /\ recv[1] = "Done"
          /\ hist.emit_found # None
    /\ (pc = "updated" /\ in_send # "Done" /\ hist.emit_found # None) =>
          /\ node.state = (IF EmitExhausted THEN "Done" ELSE "EmitUnmatchedBuild")
          /\ EmitExhausted => LeavesTo(hist.trail, "EmitUnmatchedBuild", "Done")
    /\ (pc = "updated" /\ in_send = "Done") => node.state = "Done"

\* After unmatched rows were emitted, update_state found the partitions
\* exhausted and moved the node to Done.
C14_Witness ==
    /\ pc = "updated" /\ in_send # "Done" /\ hist.emit_found # None
    /\ EmitExhausted
    /\ unwrap(hist.emit_found).len = 2
    /\ hist.trail = <<"EmitUnmatchedBuild", "Done">>
    /\ \E j \in 1..Len(output) : output[j].from = "EmitUnmatchedBuild"

\* The lengths of the two samples when sampling stopped.
StoppedSample == unwrap(hist.sampled)

\* Sampling stopped with neither side saturated.
StoppedUnsaturated ==
    /\ hist.sampled # None
    /\ ~left_saturated(StoppedSample)
    /\ ~right_saturated(StoppedSample)

\* The side with the shorter sample was chosen as the build side.
SmallerBuilds ==
    node.left_is_build = Some(StoppedSample.left_len < StoppedSample.right_len)

WholeSample ==
    [left |-> hist.inputs[0], left_len |-> Len(InputRows(0)),
     right |-> hist.inputs[1], right_len |-> Len(InputRows(1))]

\* Both inputs are entirely below SAMPLE_LIMIT.
BelowSampleLimit ==
    /\ Len(InputRows(0)) < SAMPLE_LIMIT
    /\ Len(InputRows(1)) < SAMPLE_LIMIT

\* C16: when both inputs are entirely below SAMPLE_LIMIT, the build side
\* chosen by sampling is the same in every run on these inputs: it is the
\* side chosen in the run that samples both inputs to their end.
C16_SameBuildSide ==
    (hist.sampled # None /\ BelowSampleLimit)
        => node.left_is_build = Some(choose_left_is_build(WholeSample))

\* On an empty left input and a right input below SAMPLE_LIMIT, sampling
\* stopped after the whole right input was sampled, and the left side
\* builds.
C16_Witness ==
    /\ hist.sampled # None
    /\ BelowSampleLimit
    /\ hist.inputs[0] = <<>>
    /\ hist.inputs[1] # <<>>
    /\ StoppedSample.right_len = Len(InputRows(1))
    /\ node.left_is_build = Some(TRUE)

\* C17: after a send of partition_and_probe failed, the task neither
\* attempts another send, nor probes another partition, nor receives
\* another input morsel.
C17_FailedSendStops ==
    /\ ~hist.after_fail.sends
    /\ ~hist.after_fail.probes
    /\ ~hist.after_fail.recvs

\* A send of a probe task failed, the task left its receive loop, and no
\* probe task went on after a failed send.
C17_Witness ==
    /\ pc = "running"
    /\ phase.kind = "Probe"
    /\ \E w \in Workers : phase.send_failed[w] /\ phase.task_done[w]
    /\ C17_FailedSendStops

\* The columns of the frame df that are named name.
ColumnsNamed(df, name) == {j \in 1..Len(df) : df[j].name = name}

\* The frame out holds the key at place p coalesced: one column named as
\* the left key, with the value of the key, which every row holds on one
\* side at least.
KeyCoalesced(out, p) ==
    /\ Cardinality(ColumnsNamed(out, schemas.left_key_schema[p])) = 1
    /\ \A j \in ColumnsNamed(out, schemas.left_key_schema[p]) : out[j].val = p

\* C18: in a full join with coalesce, postprocess_join finds every
\* placeholder, and the frame it returns holds one column per join key,
\* named as the left key, with the left key if that is not null and the
\* right key otherwise, and no placeholder column.
C18_FullCoalesce ==
    (args.how = "Full" /\ args.coalesce) =>
        /\ frame.stage # "panicked"
        /\ frame.stage = "postprocessed" =>
              /\ \A p \in 1..Len(schemas.left_key_schema) : KeyCoalesced(frame.out, p)
              /\ \A j \in 1..Len(frame.out) :
                    ~starts_with(frame.out[j].name, COALESCE_KEYCOL)

\* A row without a match on the left side came through postprocess_join
\* of a full join with coalesce, with its two keys coalesced.
C18_Witness ==
    /\ args.how = "Full" /\ args.coalesce
    /\ frame.stage = "postprocessed"
    /\ frame.kind = "right"
    /\ Len(schemas.left_key_schema) = 2
    /\ \A p \in 1..2 : KeyCoalesced(frame.out, p)

\* The right column j has to be renamed: it is no coalesced key and the
\* left schema holds a column of its name.
HasToBeRenamed(j) ==
    /\ ~(args.coalesce
         /\ contains(schemas.right_key_schema, schemas.right_input_schema[j]))
    /\ contains(schemas.left_input_schema, schemas.right_input_schema[j])

\* The names of the columns the two payload selectors keep, left first.
SelectedNames ==
    Flatten([j \in 1..Len(frame.left_payload_select) |->
                IF frame.left_payload_select[j] = None THEN <<>>
                ELSE <<unwrap(frame.left_payload_select[j])>>])
    \o Flatten([j \in 1..Len(frame.right_payload_select) |->
                IF frame.right_payload_select[j] = None THEN <<>>
                ELSE <<unwrap(frame.right_payload_select[j])>>])

\* C19: EquiJoinNode::new fails with Duplicate whenever a right column
\* that has to be renamed gets a suffixed name that is the name of a right
\* column, and it never succeeds with two output columns of one name.
C19_DuplicateRejected ==
    /\ (\E j \in 1..Len(schemas.right_input_schema) :
            /\ HasToBeRenamed(j)
            /\ contains(schemas.right_input_schema,
                        schemas.right_input_schema[j] \o args.suffix))
           => frame.stage \in {"new", "failed"}
    /\ frame.stage = "constructed" =>
           \A i, j \in 1..Len(SelectedNames) :
              SelectedNames[i] = SelectedNames[j] => i = j

\* EquiJoinNode::new failed with Duplicate on a right column v whose
\* suffixed name is the name of a left column.
C19_Witness ==
    /\ frame.stage = "failed"
    /\ frame.err = "Duplicate"
    /\ contains(schemas.right_input_schema, "v")
    /\ contains(schemas.left_input_schema, "v")
    /\ contains(schemas.left_input_schema, "v_right")

\* C20: finalize does not panic, and the ProbeState it returns holds
\* num_pipelines ProbeTables, whatever Build state it is called on.
C20_ProbeTables ==
    /\ pc # "panicked"
    /\ node.state = "Probe" =>
          Len(node.probe_state.table_per_partition) = node.num_pipelines

\* A Build state that was spawned on two pipelines and whose input
\* delivered no morsel was finalized into two ProbeTables.
C20_Witness ==
    /\ node.state = "Probe"
    /\ node.num_pipelines = 2
    /\ Len(node.probe_state.table_per_partition) = 2
    /\ hist.inputs[build_idx(node)] = <<>>
    /\ hist.sunk_by = {}

\* The last morsel was probed in unordered mode and all its sends succeeded.
LastProbeSent ==
    /\ hist.last_probe # None
    /\ unwrap(hist.last_probe).unordered
    /\ unwrap(hist.last_probe).failed = 0

\* The frames fs without the last one.
Front(fs) == SubSeq(fs, 1, Len(fs) - 1)

\* The morsel number k of those emitted for the probed morsel lp was
\* emitted as soon as its rows reached probe_limit: it reached the limit
\* with its last frame, or it is the flush after the loops.
EmittedAtLimit(lp, k) ==
    /\ lp.emitted[k] # <<>>
    /\ FramesHeight(Front(lp.emitted[k])) < ideal_morsel_size
    /\ k < Len(lp.emitted) => FramesHeight(lp.emitted[k]) >= ideal_morsel_size

EmittedIds(p) ==
    Flatten([j \in 1..Len(hist.emitted) |->
                IF hist.emitted[j].p = p THEN hist.emitted[j].out ELSE <<>>])

\* The ChunkIds of the unmarked keys of the table t, in the order of the
\* table.
UnmarkedIds(t) == unmarked_keys(t, 0, IdxSizeMAX, UnmarkedAcc0).out

IsPrefix(a, b) == Len(a) <= Len(b) /\ SubSeq(b, 1, Len(a)) = a

\* C22: over the runs of emit_unmatched, while no send failed, the ChunkIds
\* sent for a partition that was left are those of its unmarked keys, each
\* once, those sent for the active partition are the first of its unmarked
\* keys, nothing is sent for a later partition, the partitions follow in
\* index order, and no morsel is sent while the consume token of the morsel
\* before is unreleased.
C22_EmitUnmatchedOnce ==
    (node.state = "EmitUnmatchedBuild" /\ ~hist.cancelled) =>
        /\ \A p \in 0..(Len(node.emit_state.partitions) - 1) :
              CASE p < node.emit_state.active_partition_idx ->
                     EmittedIds(p) = UnmarkedIds(node.emit_state.partitions[p + 1].table)
                [] p = node.emit_state.active_partition_idx ->
                     IsPrefix(EmittedIds(p),
                              UnmarkedIds(node.emit_state.partitions[p + 1].table))
                [] OTHER -> EmittedIds(p) = <<>>
        /\ \A i, j \in 1..Len(hist.emitted) :
              i < j => hist.emitted[i].p <= hist.emitted[j].p
        /\ \A j \in 1..Len(hist.emitted) : ~hist.emitted[j].unreleased

\* The unmarked keys of two partitions were sent in two runs, the first of
\* which a stop request ended.
C22_Witness ==
    /\ node.state = "EmitUnmatchedBuild" /\ ~hist.cancelled
    /\ Len(node.emit_state.partitions) = 2
    /\ node.emit_state.active_partition_idx = 2
    /\ hist.emit_stops >= 1
    /\ EmittedIds(0) # <<>>
    /\ EmittedIds(1) # <<>>
    /\ C22_EmitUnmatchedOnce

\* The step is a call of update_state on a node in Sample whose send port
\* is not Done, so that try_transition_to_build is called.
CallsTryTransition ==
    /\ pc \in {"idle", "updated"}
    /\ pc' \in {"updated", "panicked"}
    /\ node.state = "Sample"
    /\ in_send' # "Done"

\* Side i is done or saturated for the recv ports r.
DoneOrSaturated(i, r) ==
    r[i] = "Done" \/ side_len(node.sample_state, i) >= SAMPLE_LIMIT

\* Side i is done or saturated, and the sample of the other side is at
\* least LOPSIDED_SAMPLE_FACTOR times as long.
LopsidedAgainst(i, r) ==
    /\ DoneOrSaturated(i, r)
    /\ side_len(node.sample_state, 1 - i)
          >= LOPSIDED_SAMPLE_FACTOR * side_len(node.sample_state, i)

C24_SaturatedChoice ==
    hist.sampled # None =>
        /\ (~left_saturated(StoppedSample) /\ right_saturated(StoppedSample))
              => node.left_is_build = Some(TRUE)
        /\ (left_saturated(StoppedSample) /\ ~right_saturated(StoppedSample))
              => node.left_is_build = Some(FALSE)
        /\ (left_saturated(StoppedSample) /\ right_saturated(StoppedSample)
              /\ StoppedSample.lc # StoppedSample.rc)
              => node.left_is_build = Some(StoppedSample.lc < StoppedSample.rc)

\* Sampling stopped with both sides saturated and fewer keys on the right:
\* the right side builds.
C24_Witness ==
    /\ hist.sampled # None
    /\ left_saturated(StoppedSample)
    /\ right_saturated(StoppedSample)
    /\ StoppedSample.rc < StoppedSample.lc
    /\ StoppedSample.rc > 0
    /\ node.left_is_build = Some(FALSE)

\* The cost of building on the left and probing with the right, and of
\* building on the right and probing with the left, as the claim writes them.
LeftBuildsCost == (3 * StoppedSample.left_len + 3 * StoppedSample.lc) + StoppedSample.right_len
RightBuildsCost == (3 * StoppedSample.right_len + 3 * StoppedSample.rc) + StoppedSample.left_len

\* Sampling stopped with both sides unsaturated and neither sample more
\* than LOPSIDED_SAMPLE_FACTOR times as long as the other.
StoppedBalanced ==
    /\ StoppedUnsaturated
    /\ ~(StoppedSample.left_len * LOPSIDED_SAMPLE_FACTOR < StoppedSample.right_len)
    /\ ~(StoppedSample.right_len * LOPSIDED_SAMPLE_FACTOR < StoppedSample.left_len)

\* C25: when sampling stops with both sides unsaturated and neither
\* L * 10 < R nor R * 10 < L, the left side builds exactly when
\* (3L + 3cL) + R < (3R + 3cR) + L; on equality the right side builds.
C25_CostChoice ==
    StoppedBalanced => node.left_is_build = Some(LeftBuildsCost < RightBuildsCost)

\* Sampling stopped on two non-empty samples of equal cost: the right side
\* builds.
C25_Witness ==
    /\ StoppedBalanced
    /\ StoppedSample.left_len > 0
    /\ LeftBuildsCost = RightBuildsCost
    /\ node.left_is_build = Some(FALSE)

\* The sampled morsels of side i.
side_morsels(ss, i) == IF i = 0 THEN ss.left ELSE ss.right

\* The step is one iteration of the receive loop of the sample sink of
\* side i.
SinkReceives(i) ==
    /\ pc = "running"
    /\ phase.kind = "Sample"
    /\ upstream'[i] # upstream[i]

\* The sink of side i stores the morsel it received.
SinkStores(i) ==
    side_morsels(node'.sample_state, i)
        = Append(side_morsels(node.sample_state, i), Head(upstream[i]))

\* The condition of the claim for a stop request of the sink of side i: the
\* length of the side after the morsel reaches SAMPLE_LIMIT, or the sink of
\* the other side is not running and the length reaches
\* LOPSIDED_SAMPLE_FACTOR times the length of the other side.
StopCondition(i) ==
    \/ side_len(node'.sample_state, i) >= SAMPLE_LIMIT
    \/ /\ ~phase.running[1 - i]
       /\ side_len(node'.sample_state, i)
             >= LOPSIDED_SAMPLE_FACTOR * side_len(node.sample_state, 1 - i)

\* Side j is unfinished: morsels of it are still to come and its sample is
\* below SAMPLE_LIMIT.
Unfinished(j) ==
    /\ upstream[j] # <<>>
    /\ side_len(node.sample_state, j) < SAMPLE_LIMIT

\* The sink of side i stores every morsel and requests a stop exactly on
\* the condition of the claim.
SinkStoresAndStops ==
    [][\A i \in {0, 1} :
          SinkReceives(i) =>
              /\ SinkStores(i)
              /\ phase'.stop[i] = (phase.stop[i] \/ StopCondition(i))]_vars

\* C26 as stated: a sample sink stores every morsel it receives, requests a
\* stop on the morsel exactly when the length of its side is then at least
\* SAMPLE_LIMIT or 10 times the published final length of the other side,
\* which is unbounded while the other sink runs, and the lopsided stop is
\* never requested against an unfinished side.
C26_SampleSink ==
    [][\A i \in {0, 1} :
          SinkReceives(i) =>
              /\ SinkStores(i)
              /\ phase'.stop[i] = (phase.stop[i] \/ StopCondition(i))
              /\ (StopCondition(i) /\ side_len(node'.sample_state, i) < SAMPLE_LIMIT)
                    => ~Unfinished(1 - i)]_vars

\* A sink has requested the lopsided stop against a side whose port is
\* Done.
C26_Witness ==
    \E i \in {0, 1} :
        /\ pc = "running"
        /\ phase.kind = "Sample"
        /\ phase.stop[i]
        /\ side_len(node.sample_state, i) < SAMPLE_LIMIT
        /\ side_len(node.sample_state, i) > 0
        /\ in_recv[1 - i] = "Done"

\* The rows of a sequence of morsels, per morsel.
MorselRows(morsels) == [j \in 1..Len(morsels) |-> morsels[j].rows]

\* The frames that the workers hold, over all partitions, with their seqs.
PartitionedFrames(ppw) ==
    Flatten([w \in 1..Len(ppw) |->
               Flatten([p \in 1..Len(ppw[w]) |-> ppw[w][p].frames])])

\* The rows that the workers hold, over all partitions.
PartitionedRows(ppw) ==
    Flatten([f \in 1..Len(PartitionedFrames(ppw)) |-> PartitionedFrames(ppw)[f].df])

\* The rows of a sample that partition_and_sink gives a partition: all of
\* them when unmatched build rows are emitted, those with a key otherwise.
PartitionableRows(morsels, n) ==
    {x \in Range(Flatten(MorselRows(morsels))) : emit_unmatched_build(n) \/ x.key # NULL}

\* The replay buffer of the probe side of a node in Build or Probe.
ProbeBuffer(n) ==
    IF n.state = "Build" THEN n.build_state.sampled_probe_morsels
    ELSE n.probe_state.sampled_probe_morsels

\* The step is a call of try_transition_to_build that returns a BuildState,
\* within a call of update_state that returns.
PicksBuildSide ==
    /\ CallsTryTransition
    /\ pc' = "updated"
    /\ node'.state \in {"Build", "Probe"}

\* The sample of the build side is in the partitions of the workers: every
\* morsel in those of one worker, every row once.
BuildSamplePartitioned ==
    node'.state = "Build" =>
        /\ \A j \in 1..Len(side_morsels(node.sample_state, build_idx(node'))) :
              \E w \in 1..Len(node'.build_state.partitions_per_worker) :
                 \A v \in 1..Len(node'.build_state.partitions_per_worker) :
                    (\E f \in Range(PartitionedFrames(
                                 <<node'.build_state.partitions_per_worker[v]>>)) :
                         f.seq = j - 1) <=> v = w
        /\ Range(PartitionedRows(node'.build_state.partitions_per_worker))
              = PartitionableRows(side_morsels(node.sample_state, build_idx(node')), node')
        /\ Len(PartitionedRows(node'.build_state.partitions_per_worker))
              = Cardinality(PartitionableRows(
                                side_morsels(node.sample_state, build_idx(node')), node'))

\* C27: when try_transition_to_build picks a build side, every morsel
\* sampled from that side is in the per-worker partitions of the BuildState
\* when the call returns, every morsel sampled from the other side is in
\* sampled_probe_morsels in arrival order, and finalize hands that buffer to
\* the ProbeState as it is.
C27_Handover ==
    [][/\ PicksBuildSide =>
             /\ BuildSamplePartitioned
             /\ MorselRows(ProbeBuffer(node').morsels)
                   = MorselRows(side_morsels(node.sample_state, probe_idx(node')))
       /\ (node.state = "Build" /\ node'.state = "Probe")
             => node'.probe_state.sampled_probe_morsels
                   = node.build_state.sampled_probe_morsels]_vars

\* update_state returned a node in Build whose workers hold the rows of a
\* sampled build morsel and whose buffer holds a sampled probe morsel.
C27_Witness ==
    /\ pc = "updated"
    /\ node.state = "Build"
    /\ hist.sampled # None
    /\ StoppedSample.left_len > 0
    /\ StoppedSample.right_len > 0
    /\ PartitionedRows(node.build_state.partitions_per_worker) # <<>>
    /\ ~is_empty(node.build_state.sampled_probe_morsels)

\* The morsels sent on channel w in call c of reinsert, in order.
ChannelOf(w, c) == SelectSeq(stream.sent[w], LAMBDA e : e.call = c)

\* All morsels sent, on every channel and in every call.
AllSent == UNION {Range(stream.sent[w]) : w \in 1..stream.num_pipelines}

\* C28: a BufferedStream of n morsels with start offset s holds seqs s,
\* s+1, ..., s+n-1 in the original order and post_buffer_offset = s+n;
\* every morsel forwarded from the port carries its seq plus
\* post_buffer_offset, which is greater than the seq of every buffered
\* morsel, in every call of reinsert.
C28_BufferedSeqs ==
    stream.stage # "none" =>
        /\ stream.buffer.post_buffer_offset = stream.start_offset + Len(stream.input)
        /\ \A j \in 1..Len(stream.buffer.morsels) :
              /\ stream.buffer.morsels[j].seq
                    = stream.start_offset + stream.buffer.morsels[j].origin - 1
              /\ j > 1 => stream.buffer.morsels[j].origin
                             = stream.buffer.morsels[j - 1].origin + 1
        /\ \A e \in AllSent :
              /\ e.from = "buffer" => e.seq = stream.start_offset + e.origin - 1
              /\ e.from = "port" =>
                    /\ e.seq = e.orig_seq + stream.start_offset + Len(stream.input)
                    /\ \A j \in 1..Len(stream.input) : e.seq > stream.start_offset + j - 1

\* In the second call of reinsert on a stream of two morsels with start
\* offset 2, the first morsel of the port was forwarded with seq 4.
C28_Witness ==
    /\ stream.stage = "reinsert"
    /\ stream.start_offset = 2
    /\ Len(stream.input) = 2
    /\ \E e \in AllSent : e.from = "port" /\ e.call = 2 /\ e.orig_seq = 0 /\ e.seq = 4
    /\ \E e \in AllSent : e.from = "buffer" /\ e.seq = 3

\* On every channel the buffered morsels come before the morsels of the
\* port, and the seqs increase.
ChannelOrdered ==
    stream.stage # "none" =>
        \A w \in 1..stream.num_pipelines : \A c \in ReinsertCalls :
           \A i, j \in 1..Len(ChannelOf(w, c)) :
              i < j => /\ ChannelOf(w, c)[i].seq < ChannelOf(w, c)[j].seq
                       /\ ChannelOf(w, c)[i].from = "port" => ChannelOf(w, c)[j].from = "port"

\* A task leaves the loop over the buffer only when the buffer is empty,
\* whether or not a stop was requested.
DrainedRegardless ==
    \A w \in 1..stream.num_pipelines :
       (stream.task[w] = "loop" /\ stream'.task[w] \in {"forward", "done"})
          => is_empty(stream.buffer)

\* The source token of a morsel sent on a channel is stopped by the task
\* exactly when the morsel is of the port and the stop was requested before
\* it is forwarded; what was sent before is left as it is.
StopForwarded ==
    \A w \in 1..stream.num_pipelines :
       stream'.sent[w] # stream.sent[w] =>
          /\ SubSeq(stream'.sent[w], 1, Len(stream.sent[w])) = stream.sent[w]
          /\ stream'.sent[w][Len(stream'.sent[w])].stopped
                <=> /\ stream'.sent[w][Len(stream'.sent[w])].from = "port"
                    /\ stream.stop_requested

\* C29: on each channel of a call of reinsert the buffered morsels are sent
\* before the morsels of the port and the seqs increase strictly; a stop
\* request on the shared source token does not end the loop over the buffer
\* and stops the source tokens of the morsels of the port that are forwarded
\* after it, and of no other morsel.
C29_BufferFirst ==
    [][stream.stage = "reinsert" =>
          (ChannelOrdered' /\ DrainedRegardless /\ StopForwarded)]_vars

\* After a stop request a task has popped a buffered morsel, and a channel
\* carries a buffered morsel, a morsel of the port that was forwarded before
\* the request and one that was forwarded after it.
C29_Witness ==
    /\ stream.stage = "reinsert"
    /\ stream.stop_requested
    /\ \E w \in 1..stream.num_pipelines :
          /\ Len(ChannelOf(w, stream.calls)) = 3
          /\ ChannelOf(w, stream.calls)[1].from = "buffer"
          /\ ~ChannelOf(w, stream.calls)[2].stopped
          /\ ChannelOf(w, stream.calls)[3].stopped

\* C30: a reinsert task has at most one buffered morsel outstanding: it has
\* popped the next morsel only when the consume token of the morsel it sent
\* before is released.
C30_OneOutstanding ==
    stream.stage = "reinsert" =>
        \A w \in 1..stream.num_pipelines :
           /\ stream.outstanding[w] <= 1
           /\ stream.task[w] = "send" => stream.outstanding[w] = 0

\* A task has sent its second buffered morsel of the call, whose consume
\* token is not released.
C30_Witness ==
    /\ stream.stage = "reinsert"
    /\ \E w \in 1..stream.num_pipelines :
          /\ Len(ChannelOf(w, stream.calls)) = 2
          /\ ChannelOf(w, stream.calls)[2].from = "buffer"
          /\ stream.outstanding[w] = 1

\* The step is one iteration of the receive loop of partition_and_probe
\* that sends output.
ProbeSends ==
    /\ pc = "running"
    /\ phase.kind = "Probe"
    /\ output' # output

\* The morsels a step has sent to the output.
NewOutput == SubSeq(output', Len(output) + 1, Len(output'))

\* C31: every morsel partition_and_probe sends carries the seq and the
\* source token of the probe input morsel it received, all rows of it are
\* rows of that input morsel, and in ordered mode an input morsel gives at
\* most one output morsel.
C31_OutputOfOneInput ==
    [][ProbeSends =>
          /\ SubSeq(output', 1, Len(output)) = output
          /\ \A j \in 1..Len(NewOutput) :
                /\ NewOutput[j].seq = reinsert_next(node).seq
                /\ NewOutput[j].src = reinsert_next(node).origin
                /\ \A x \in Range(NewOutput[j].df) :
                      ProbeSide(x).m = reinsert_next(node).origin
          /\ node.preserve_order_probe => Len(NewOutput) <= 1]_vars

\* The unordered probe has sent the output of two input morsels in two
\* morsels with the seqs of their inputs.
C31_Witness ==
    /\ ~node.preserve_order_probe
    /\ \E i, j \in ProbeOutputs :
          /\ i < j
          /\ output[i].src # output[j].src
          /\ output[i].seq # output[j].seq

\* The ProbeTable pt has one key chunk per frame of df, of the height of the
\* frame, and no frame of height 0.
ChunksMatchFrames(pt) ==
    /\ Len(pt.table.chunks) = Len(pt.df)
    /\ \A c \in 1..Len(pt.df) :
          /\ height(pt.df[c]) > 0
          /\ Len(pt.table.chunks[c].keys) = height(pt.df[c])

\* chunk_seq_ids of the ProbeTable pt has one entry per chunk: the seq of
\* the morsel that the rows of the chunk came with, in non-decreasing order.
ChunkSeqIdsOf(pt) ==
    /\ Len(pt.chunk_seq_ids) = Len(pt.df)
    /\ \A c \in 1..Len(pt.df) :
          /\ \A x \in Range(pt.df[c]) :
                \E mo \in Range(hist.inputs[build_idx(node)]) :
                   mo.origin = x.m /\ mo.seq = pt.chunk_seq_ids[c]
          /\ c > 1 => pt.chunk_seq_ids[c - 1] <= pt.chunk_seq_ids[c]

\* C32: after finalize every ProbeTable has as many key chunks as frames in
\* df, none of them of height 0; with preserve_order_build chunk_seq_ids
\* holds the seq of the morsel of every chunk, in non-decreasing order, and
\* without it chunk_seq_ids is empty.
C32_ChunksOfProbeTables ==
    node.state = "Probe" =>
        \A p \in 1..Len(node.probe_state.table_per_partition) :
           /\ ChunksMatchFrames(node.probe_state.table_per_partition[p])
           /\ IF node.preserve_order_build
              THEN ChunkSeqIdsOf(node.probe_state.table_per_partition[p])
              ELSE node.probe_state.table_per_partition[p].chunk_seq_ids = <<>>

\* With preserve_order_build, two build morsels were finalized into two
\* ProbeTables: one holds a chunk of each morsel, the other none, the
\* frames of height 0 of its partition being skipped.
C32_Witness ==
    /\ node.state = "Probe"
    /\ node.preserve_order_build
    /\ Len(node.probe_state.table_per_partition) = 2
    /\ \E p, q \in 1..2 :
          /\ node.probe_state.table_per_partition[p].chunk_seq_ids = <<0, 1>>
          /\ Len(node.probe_state.table_per_partition[p].df) = 2
          /\ node.probe_state.table_per_partition[q].df = <<>>

\* The place of a state in the order Sample, Build, Probe, the two ways of
\* emitting the unmatched build rows, Done.
StateRank(st) ==
    CASE st = "Sample" -> 0
      [] st = "Build" -> 1
      [] st = "Probe" -> 2
      [] st \in {"EmitUnmatchedBuild", "EmitUnmatchedBuildInOrder"} -> 3
      [] st = "Done" -> 4

\* The states one call of update_state passed through, each later in the
\* order than the one before.
TrailForward(trail) ==
    \A j \in 1..(Len(trail) - 1) : StateRank(trail[j]) < StateRank(trail[j + 1])

\* C33: the state only moves forward along Sample, Build, Probe,
\* EmitUnmatchedBuild or EmitUnmatchedBuildInOrder, Done.  A call of
\* update_state passes through states that are each later than the one
\* before, from the state it found to the state it leaves; every other step,
\* spawn and its tasks included, leaves the state as it is; Sample is not
\* entered and Done is not left.
C33_StateForward ==
    [][/\ node.state' # node.state => StateRank(node.state) < StateRank(node.state')
       /\ node.state' = "Sample" => node.state = "Sample"
       /\ node.state = "Done" => node.state' = "Done"
       /\ IF pc \in {"idle", "updated"} /\ pc' \in {"updated", "panicked"}
          THEN /\ hist'.trail # <<>>
               /\ hist'.trail[1] = node.state
               /\ hist'.trail[Len(hist'.trail)] = node.state'
               /\ TrailForward(hist'.trail)
          ELSE node.state' = node.state]_vars

\* One call of update_state took the node from Sample through Build and
\* Probe to Done.
C33_Witness ==
    /\ pc = "updated"
    /\ hist.trail = <<"Sample", "Build", "Probe", "Done">>
    /\ node.state = "Done"

\* left_is_build is Some and the index table is the one of the key schema
\* of the build side.
BuildSideDecided ==
    /\ node.left_is_build \in {Some(TRUE), Some(FALSE)}
    /\ node.table = Some(IF unwrap(node.left_is_build) THEN "left_key_schema"
                         ELSE "right_key_schema")

\* C34: in every state other than Sample and Done left_is_build is decided
\* and the index table exists, so that no unwrap of them panics; and a
\* decided left_is_build never changes.
C34_BuildSideDecided ==
    /\ [](node.state \notin {"Sample", "Done"} => BuildSideDecided)
    /\ [][node.left_is_build # None =>
             /\ node.left_is_build' = node.left_is_build
             /\ node.table' = node.table]_vars

\* The node probes with a build side that was chosen from the samples.
C34_Witness ==
    /\ node.state = "Probe"
    /\ hist.sampled # None
    /\ new_left_is_build(args.maintain_order, SAMPLE_LIMIT) = None
    /\ node.left_is_build = Some(FALSE)
    /\ pc = "running"

\* update_state returned from a call that was not passed send[0] = Done and
\* that reached its Probe step with the node in Probe.
ReturnedFromProbeStep ==
    /\ pc = "updated"
    /\ in_send # "Done"
    /\ "Probe" \in Range(hist.trail)

\* C35: a call of update_state that reaches its Probe step in Probe, with
\* the probe input Done and the replay buffer not empty, leaves the node in
\* Probe with the buffer as it is and sets send[0] to Ready; a call that
\* leaves Probe found the replay buffer empty, so the sampled probe morsels
\* are probed before unmatched build rows are emitted or the node is Done;
\* and no call returns in Probe with send[0] = Done.
C35_ReplayBeforeLeaving ==
    /\ (ReturnedFromProbeStep /\ in_recv[probe_idx(node)] = "Done"
           /\ ~hist.samples_consumed) =>
          /\ node.state = "Probe"
          /\ ~ReplayBufferEmpty
          /\ send = "Ready"
    /\ (ReturnedFromProbeStep /\ Leaves(hist.trail, "Probe")) =>
          hist.samples_consumed
    /\ ReturnedInProbe => send # "Done"

\* The probe input was Done when update_state found sampled probe morsels
\* in the replay buffer; the probe tasks of the phase it opened have taken
\* them all and sent joined rows.
C35_Witness ==
    /\ pc = "running"
    /\ node.state = "Probe"
    /\ in_recv[probe_idx(node)] = "Done"
    /\ ~hist.samples_consumed
    /\ send = "Ready"
    /\ ReplayBufferEmpty
    /\ ProbeOutputs # {}

\* The places the buffered morsel of origin o is at: the queue, the tasks
\* that have popped it and not yet sent it, the channels it was sent on,
\* and the morsels dropped with a failed send.
InQueue(o) == {j \in 1..Len(stream.buffer.morsels) : stream.buffer.morsels[j].origin = o}
PoppedBy(o) ==
    {w \in 1..stream.num_pipelines :
        stream.popped[w] # None /\ unwrap(stream.popped[w]).origin = o}
SentAt ==
    UNION {{<<w, j>> : j \in 1..Len(stream.sent[w])} : w \in 1..stream.num_pipelines}
SentAs(o) ==
    {c \in SentAt : stream.sent[c[1]][c[2]].from = "buffer"
                    /\ stream.sent[c[1]][c[2]].origin = o}
DroppedAs(o) == IF o \in stream.dropped THEN {o} ELSE {}

\* The tasks of the last call of reinsert have all returned, none of them
\* after a failed send.
ReinsertFinished ==
    /\ stream.calls >= 1
    /\ \A w \in 1..stream.num_pipelines :
          stream.task[w] = "done" /\ ~stream.failed[w]

\* C36: every buffered morsel is at one place, so that no two tasks pop the
\* same morsel and none is sent twice, over all calls of reinsert; when all
\* tasks of a call have returned without a failed send the buffer is empty,
\* and if no send has failed in any call every buffered morsel was sent
\* once.
C36_PoppedOnce ==
    stream.stage # "none" =>
        /\ \A j \in 1..Len(stream.input) :
              Cardinality(InQueue(j)) + Cardinality(PoppedBy(j))
                 + Cardinality(SentAs(j)) + Cardinality(DroppedAs(j)) = 1
        /\ ReinsertFinished => is_empty(stream.buffer)
        /\ (ReinsertFinished /\ stream.dropped = {}) =>
              \A j \in 1..Len(stream.input) : Cardinality(SentAs(j)) = 1

\* The two tasks of a call have each popped and sent one of two buffered
\* morsels, the second task the first morsel, and have returned.
C36_Witness ==
    /\ stream.stage = "reinsert"
    /\ ReinsertFinished
    /\ stream.dropped = {}
    /\ Len(stream.input) = 2
    /\ \E c, d \in SentAt :
          /\ c[1] = 1 /\ stream.sent[c[1]][c[2]].origin = 2
          /\ d[1] = 2 /\ stream.sent[d[1]][d[2]].origin = 1
          /\ stream.sent[c[1]][c[2]].from = "buffer"
          /\ stream.sent[d[1]][d[2]].from = "buffer"

\* The limits of the probe_subset calls of the last morsel probed in
\* unordered mode.
LastLimits == unwrap(hist.last_probe).limits
LastLimitsAfterFail == unwrap(hist.last_probe).limits_after_fail

\* C38: every probe_subset of the unordered probe is called with out_len
\* below probe_limit, that is with a limit probe_limit - out_len between 1
\* and probe_limit, so that the subtraction does not underflow; also when a
\* send of the same morsel has failed before.
C38_ProbeLimit ==
    (hist.last_probe # None /\ unwrap(hist.last_probe).unordered) =>
        /\ ideal_morsel_size >= 1
        /\ LastLimits \subseteq 1..ideal_morsel_size
        /\ LastLimitsAfterFail \subseteq LastLimits

\* The probe of a morsel called probe_subset with a row in out_frames, that
\* is with a limit below probe_limit, and sent the rows of both calls.
C38_Witness ==
    /\ hist.last_probe # None
    /\ unwrap(hist.last_probe).unordered
    /\ unwrap(hist.last_probe).failed = 0
    /\ LastLimits = {1, 2}
    /\ ideal_morsel_size = 2
    /\ Len(unwrap(hist.last_probe).produced) = 2

\* The port states a cooperating environment passes to update_state: an
\* input is Done once its source has sent everything (or the port was Done
\* before) and Ready otherwise, and the consumer is not Blocked.
CooperativeRecv ==
    [i \in {0, 1} |->
        IF upstream[i] = <<>> \/ recv[i] = "Done" \/ in_recv[i] = "Done"
        THEN "Done" ELSE "Ready"]

UpdateCooperative ==
    /\ UpdateState
    /\ in_recv' = CooperativeRecv
    /\ in_send' # "Blocked"

\* update_state can be called.
CanUpdate == pc \in {"idle", "updated"}

\* A probe task can receive a morsel, and a step in which one does.
ProbeCanReceive ==
    /\ pc = "running"
    /\ phase.kind = "Probe"
    /\ reinsert_has_next(node)
    /\ \E w \in Workers : ~phase.task_done[w]

ProbeReceives ==
    /\ pc = "running"
    /\ phase.kind = "Probe"
    /\ \E w \in Workers : ProbeMorsel(w)

\* A task of the running phase other than a probe task receives a morsel
\* of its input.
Receives ==
    \/ \E i \in {0, 1} : SampleSink(i)
    \/ \E w \in Workers : BuildSink(w)
    \/ \E w \in Workers : ReinsertAfterBreak(w)

\* A task of the running phase goes on without receiving: a sample sink
\* finds its receiver closed, an emitting task sends a morsel or returns,
\* the consumer releases a consume token.
GoesOn ==
    \/ \E i \in {0, 1} : SampleSinkEnd(i)
    \/ EmitUnmatched
    \/ EmitConsumed
    \/ SrcNodeSend

\* The scheduler goes on calling update_state and spawn, and again and
\* again finds the environment cooperating; the sources send while a task
\* receives from them; the tasks of a phase go on while they can, which
\* takes the consumer to release the consume tokens; and a phase whose
\* tasks can all have returned ends.  The conditions on update_state and on
\* the probe tasks are strong fairness, written with the guards of the
\* actions.
Scheduling ==
    /\ WF_vars(Initialize)
    /\ (<>[]~CanUpdate \/ []<><<UpdateCooperative>>_vars)
    /\ SF_vars(Spawn)
    /\ SF_vars(Receives)
    /\ (<>[]~ProbeCanReceive \/ []<><<ProbeReceives>>_vars)
    /\ SF_vars(GoesOn)
    /\ SF_vars(PhaseEnd)

\* Termination: inner and full joins, unordered and ordered, with and
\* without sampling, on inputs of which one may be empty.
InitLive ==
    InitWith(ArgsWith({"Inner", "Full"}, {"None", "LeftRight"}, {FALSE}), SampleLimits, {2},
             {<<>>, << <<1>>, <<2>> >>}, {<<>>, << <<1, NULL>> >>})

SpecLive == InitLive /\ [][Next]_vars /\ Scheduling

\* C37 as stated: when the scheduler goes on calling update_state and
\* spawn, the inputs become Done and the consumer releases the consume
\* tokens, the node eventually reaches Done; it does not stay in Sample,
\* Build, Probe or EmitUnmatchedBuild for ever.
C37_ReachesDone == <>(node.state = "Done")

\* Under the same scheduling the node reaches Done unless a call of
\* update_state panics.
C37_DoneOrPanicked == <>(node.state = "Done" \/ pc = "panicked")

\* The first call of update_state found the build input Done with the node
\* in the Build state it was constructed in, and panicked in finalize.
C37_Witness ==
    /\ pc = "panicked"
    /\ node.state = "Build"
    /\ hist.trail = <<"Build">>
    /\ output = <<>>
====
